---- MODULE Spec2Model ----
(***************************************************************************)
(* A model of pa_log_data.py: the PurpleAir polling loop (main), the       *)
(* sensor-API fetch (get_pa_data), the retry decorator (retry), the        *)
(* spreadsheet reader and writer (get_gsheet_data, write_data) and the     *)
(* derivations run by the timers (current_process, process_data,           *)
(* sensor_health, regional_stats), with conversions.AQI.calculate.         *)
(*                                                                         *)
(* Time is a wall clock counted in ticks.  Every blocking call (a sleep,   *)
(* an HTTP request, a spreadsheet call) lets the clock advance by some     *)
(* number of ticks; the interval durations of constants.py are counted in  *)
(* the same ticks.  Concentrations are integers in hundredths of ug/m3.    *)
(***************************************************************************)
EXTENDS Integers, Sequences, FiniteSets, TLC

VARIABLES
  pc,             \* position of main(): the statement it runs next
  regional,       \* args.regional, the -r flag
  now,            \* datetime.now(), in ticks
  local_start, regional_start, process_start, status_start,
  local_et, regional_et, process_et,   \* the elapsed times of the last poll
  sheets,         \* the spreadsheet: worksheet name -> rows
  df,             \* main's df / process_data's df_local / the df of a callee
  df_local,       \* main's df_local
  idx,            \* position of the running for-loop over regions
  df_regional_stats,  \* regional_stats' accumulated summary table
  call,           \* the retry-wrapped call in progress (its arguments)
  wpc,            \* position inside retry.wrapper and the wrapped function
  attempts,       \* retry.wrapper's attempts
  ret,            \* the value the last wrapped call returned
  faults,         \* environment: the transient failures the store has left
  down,           \* environment: the store is down and stays down
  api_left,       \* environment: the responses with rows the sensor API has left
  hist            \* history: what the calls and the timers did (not program state)

vars == <<pc, regional, now, local_start, regional_start, process_start,
          status_start, local_et, regional_et, process_et, sheets, df, df_local,
          idx, df_regional_stats, call, wpc, attempts, ret, faults, down,
          api_left, hist>>

-----------------------------------------------------------------------------
(* Bounds of the model *)

\* the clock stops the model at MaxTime ticks
MaxTime == 4
\* a blocking call takes 0..MaxDur ticks
MaxDur == 1
\* the spreadsheet API fails at most MaxFaults times before it recovers
MaxFaults == 1
\* the sensor API answers at most MaxData requests with rows
MaxData == 1

Durations == 0..MaxDur

-----------------------------------------------------------------------------
(* constants.py *)

LOCAL_REGION == "TV"

\* the keys of BBOX_DICT in insertion order; v[1], the worksheet name of a
\* region, equals its key
BBOX_KEYS == <<"TV", "RS", "OC", "CEP">>

\* v[2], the display name of a region
DisplayName(k) ==
  CASE k = "TV" -> "Temescal Valley"
    [] k = "RS" -> "Riverside"
    [] k = "OC" -> "Orange County"
    [] OTHER -> "Chino, Eastvale, Pomona"

REGIONAL_KEYS == <<"OC", "RS", "CEP">>

\* the interval durations, shortened to a few ticks (the configured values
\* are 1, 21600, 1296000 and 22000 seconds); they keep the order
\* status <= local <= process < regional
STATUS_INTERVAL_DURATION == 1
LOCAL_INTERVAL_DURATION == 1
REGIONAL_INTERVAL_DURATION == 2
PROCESS_INTERVAL_DURATION == 1

CURRENT_WORKSHEET_NAME == "Current"
LOCAL_WORKSHEET_NAME == "TV"
OUT_WORKSHEET_HEALTH_NAME == "Health"
OUT_WORKSHEET_REGIONAL_NAME == "Regional"

\* out_worksheet_name = k + ' Proc'
ProcName(k) == k \o " Proc"

\* PROCESS_RESAMPLE_RULE, the width of a resample bucket, in ticks
PROCESS_RESAMPLE_RULE == 2

local_cols == <<"time_stamp", "time_stamp_pacific", "sensor_index", "name",
                "rssi", "uptime", "pm2.5_atm_a", "pm2.5_atm_b", "Ipm25">>
regional_cols == <<"time_stamp", "time_stamp_pacific", "sensor_index", "name",
                   "pm2.5_atm_a", "pm2.5_atm_b", "Ipm25">>

-----------------------------------------------------------------------------
(* Helpers *)

Abs(x) == IF x < 0 THEN -x ELSE x

\* int(n / d) of Python: the quotient truncated toward zero (d > 0)
Trunc(n, d) == IF n >= 0 THEN n \div d ELSE -((-n) \div d)

\* round(n / d) of Python: to the nearest integer, a tie to the even one (d > 0)
RoundDiv(n, d) ==
  LET q == n \div d
      r == n % d
  IN  IF 2 * r < d THEN q
      ELSE IF 2 * r > d THEN q + 1
      ELSE IF q % 2 = 0 THEN q ELSE q + 1

RECURSIVE SumSeq(_)
SumSeq(s) == IF s = <<>> THEN 0 ELSE Head(s) + SumSeq(Tail(s))

RECURSIVE MaxSeq(_)
MaxSeq(s) ==
  IF Len(s) = 1 THEN Head(s)
  ELSE LET m == MaxSeq(Tail(s)) IN IF Head(s) >= m THEN Head(s) ELSE m

RECURSIVE SortedInts(_)
SortedInts(S) ==
  IF S = {} THEN <<>>
  ELSE LET m == CHOOSE x \in S : \A y \in S : x <= y
       IN  <<m>> \o SortedInts(S \ {m})

RECURSIVE Flatten(_)
Flatten(ss) == IF ss = <<>> THEN <<>> ELSE Head(ss) \o Flatten(Tail(ss))

Column(rows, f) == [i \in DOMAIN rows |-> rows[i][f]]

-----------------------------------------------------------------------------
(* conversions.py: AQI.calculate *)

\* the empty marker df.fillna('') puts in place of a missing value
BLANK == -1000000

\* a variant of pm25_aqi whose beyond_aqi entry starts at its own
\* concentration, 500.5
pm25_aqi_beyond_from_500_5(cat) ==
  CASE cat = "good" -> <<0, 50, 0, 120>>
    [] cat = "moderate" -> <<51, 100, 121, 354>>
    [] cat = "sensitive" -> <<101, 150, 355, 554>>
    [] cat = "unhealthy" -> <<151, 200, 555, 1504>>
    [] cat = "very" -> <<201, 300, 1505, 2504>>
    [] cat = "hazardous" -> <<301, 500, 2505, 5004>>
    [] cat = "beyond_aqi" -> <<301, 500, 5005, 9999>>

\* pm25_aqi: (Ilow, Ihigh, Clow, Chigh), the concentrations in tenths
pm25_aqi(cat) ==
  CASE cat = "good" -> <<0, 50, 0, 120>>
    [] cat = "moderate" -> <<51, 100, 121, 354>>
    [] cat = "sensitive" -> <<101, 150, 355, 554>>
    [] cat = "unhealthy" -> <<151, 200, 555, 1504>>
    [] cat = "very" -> <<201, 300, 1505, 2504>>
    [] cat = "hazardous" -> <<301, 500, 2505, 5004>>
    [] cat = "beyond_aqi" -> <<301, 500, 2505, 5004>>

\* the if/elif chain over PM2_5 (in tenths)
AqiCategory(PM2_5) ==
  IF 0 <= PM2_5 /\ PM2_5 <= 120 THEN "good"
  ELSE IF 121 <= PM2_5 /\ PM2_5 <= 354 THEN "moderate"
  ELSE IF 355 <= PM2_5 /\ PM2_5 <= 554 THEN "sensitive"
  ELSE IF 555 <= PM2_5 /\ PM2_5 <= 1504 THEN "unhealthy"
  ELSE IF 1505 <= PM2_5 /\ PM2_5 <= 2504 THEN "very"
  ELSE IF 2505 <= PM2_5 /\ PM2_5 <= 5004 THEN "hazardous"
  ELSE "beyond_aqi"

\* a variant of line 33 that rounds the average to one decimal
AqiPM2_5_rounded(pms) ==
  LET t == RoundDiv(SumSeq(pms), 10 * Len(pms))
  IN  IF t < 0 THEN 0 ELSE t

\* total / count truncated to one decimal and floored at 0: the arguments in
\* hundredths, the result in tenths
AqiPM2_5(pms) ==
  LET t == Trunc(SumSeq(pms), 10 * Len(pms))
  IN  IF t < 0 THEN 0 ELSE t

\* `total += arg` and `total / count` raise TypeError on the '' marker, before
\* the try block
AqiRaises(pms) == \E i \in DOMAIN pms : pms[i] = BLANK

\* AQI.calculate(PM, *args) for numeric arguments
AqiCalculate(pms) ==
  LET p == AqiPM2_5(pms)
      bp == pm25_aqi(AqiCategory(p))
  IN  RoundDiv((bp[2] - bp[1]) * (p - bp[3]), bp[4] - bp[3]) + bp[1]

-----------------------------------------------------------------------------
(* conversions.py: EPA.calculate *)

\* lines 76-82: `total += arg` and `total / count` raise TypeError on the ''
\* marker, before the try block
EpaRaises(pms) == \E i \in DOMAIN pms : pms[i] = BLANK

\* EPA.calculate(RH, PM, *args) when lines 76-82 did not raise: RH in percent
\* and the concentrations in whole ug/m3, the result in thousandths (the
\* branch of line 91 is taken by a NaN only)
EpaCalculate(RH, pms) ==
  LET S == SumSeq(pms)
      n == Len(pms)
  IN  IF RH = BLANK THEN 0
      ELSE IF S <= 343 * n
      THEN RoundDiv(520 * S - 86 * RH * n + 5750 * n, n)
      ELSE RoundDiv(393 * S * S + 460000 * S * n + 2970000 * n * n, 1000 * n * n)

-----------------------------------------------------------------------------
(* pa_log_data.py: the tables *)

\* A DataFrame is a sequence of rows, a row a record of its columns.  The
\* column 'pm2.5_atm_a' is the field pm25_atm_a.  time_stamp_pacific, a
\* function of time_stamp alone, is not carried.

\* the sensors the API knows, as the fields of a `data` entry
SensorGood == [sensor_index |-> 9262, name |-> "PA-II", rssi |-> -61,
               uptime |-> 100, pm25_atm_a |-> 1000, pm25_atm_b |-> 1100]
SensorBad == [sensor_index |-> 9356, name |-> "Oz Terramor", rssi |-> -70,
              uptime |-> 50, pm25_atm_a |-> 1000, pm25_atm_b |-> 3000]
SensorBlank == [sensor_index |-> 9356, name |-> "Oz Terramor", rssi |-> -70,
                uptime |-> 50, pm25_atm_a |-> BLANK, pm25_atm_b |-> 1000]

\* the `data` arrays a 2xx response may carry
ApiData == {<<>>, <<SensorGood>>, <<SensorGood, SensorBad>>, <<SensorBlank>>}

\* the names of the sensors in ascending order (groupby sorts its keys)
SENSOR_ORDER == <<"Oz Terramor", "PA-II">>

\* line 190: the seconds get_pa_data adds to the time since previous_time, in
\* ticks (20 seconds; the pauses of 10 seconds and the retry delays of 90
\* seconds and more each last up to MaxDur ticks)
LOOKBACK_MARGIN == 1

\* line 190: the max_age of the request get_pa_data issues at tick t, the age
\* of the oldest reading the sensor API returns
et_since(t, previous_time) == t - previous_time + LOOKBACK_MARGIN

\* what session.get(url) does: raise a RequestException, answer non-2xx, or
\* answer 2xx
FetchOutcomes == {"exception", "not_ok", "ok"}

\* a variant of get_pa_data that parses the body of any response, whatever its
\* status
get_pa_data_any_status(outcome, data, local, t) ==
  IF outcome # "exception"
  THEN [i \in DOMAIN data |->
          IF local
          THEN [time_stamp |-> t, sensor_index |-> data[i].sensor_index,
                name |-> data[i].name, rssi |-> data[i].rssi,
                uptime |-> data[i].uptime, pm25_atm_a |-> data[i].pm25_atm_a,
                pm25_atm_b |-> data[i].pm25_atm_b]
          ELSE [time_stamp |-> t, sensor_index |-> data[i].sensor_index,
                name |-> data[i].name, pm25_atm_a |-> data[i].pm25_atm_a,
                pm25_atm_b |-> data[i].pm25_atm_b]]
  ELSE <<>>

\* get_pa_data: the rows of the response stamped with the time of ingestion,
\* restricted to cols; an empty DataFrame when the request failed
get_pa_data(outcome, data, local, t) ==
  IF outcome = "ok"
  THEN [i \in DOMAIN data |->
          IF local
          THEN [time_stamp |-> t, sensor_index |-> data[i].sensor_index,
                name |-> data[i].name, rssi |-> data[i].rssi,
                uptime |-> data[i].uptime, pm25_atm_a |-> data[i].pm25_atm_a,
                pm25_atm_b |-> data[i].pm25_atm_b]
          ELSE [time_stamp |-> t, sensor_index |-> data[i].sensor_index,
                name |-> data[i].name, pm25_atm_a |-> data[i].pm25_atm_a,
                pm25_atm_b |-> data[i].pm25_atm_b]]
  ELSE <<>>

\* clean_data keeps a row when none of its four drops removes it.  The
\* channels are sa / n and sb / n hundredths (n = 1 for a raw reading, the
\* size of the bucket for a resampled mean).
CleanKeepQ(sa, sb, n) ==
  /\ ~(sa > 200000 * n)
  /\ ~(sb > 200000 * n)
  /\ ~(Abs(sa - sb) >= 500 * n)
  /\ ~(\* |a - b| / ((a + b + 1e-6) / 2) >= 0.7
       IF sa + sb >= 0 THEN 20 * Abs(sa - sb) > 7 * (sa + sb) ELSE FALSE)

CleanKeep(r) == CleanKeepQ(r.pm25_atm_a, r.pm25_atm_b, 1)

\* a variant of clean_data that removes one offending row per call
clean_data_one_per_call(rows) ==
  LET bad == {i \in DOMAIN rows : ~CleanKeep(rows[i])}
      m == CHOOSE i \in bad : \A j \in bad : i <= j
  IN  IF bad = {} THEN rows
      ELSE [k \in 1..(Len(rows) - 1) |-> IF k < m THEN rows[k] ELSE rows[k + 1]]

clean_data(rows) == SelectSeq(rows, CleanKeep)

\* df['Ipm25'] = df.apply(lambda x: AQI.calculate(a, b), axis=1)
Ipm25Raises(rows) ==
  \E i \in DOMAIN rows : AqiRaises(<<rows[i].pm25_atm_a, rows[i].pm25_atm_b>>)

WithIpm25(rows) ==
  [i \in DOMAIN rows |->
     [c \in DOMAIN rows[i] \cup {"Ipm25"} |->
        IF c = "Ipm25"
        THEN AqiCalculate(<<rows[i].pm25_atm_a, rows[i].pm25_atm_b>>)
        ELSE rows[i][c]]]

\* format_data: the columns of local_cols or regional_cols (astype(int) and
\* round(2) leave integers and hundredths as they are)
format_data(rows, local) ==
  [i \in DOMAIN rows |->
     IF local
     THEN [time_stamp |-> rows[i].time_stamp, sensor_index |-> rows[i].sensor_index,
           name |-> rows[i].name, rssi |-> rows[i].rssi, uptime |-> rows[i].uptime,
           pm25_atm_a |-> rows[i].pm25_atm_a, pm25_atm_b |-> rows[i].pm25_atm_b,
           Ipm25 |-> rows[i].Ipm25]
     ELSE [time_stamp |-> rows[i].time_stamp, sensor_index |-> rows[i].sensor_index,
           name |-> rows[i].name,
           pm25_atm_a |-> rows[i].pm25_atm_a, pm25_atm_b |-> rows[i].pm25_atm_b,
           Ipm25 |-> rows[i].Ipm25]]

\* a variant of current_process that leaves the Quality Filter out
current_process_unfiltered(rows) == format_data(WithIpm25(rows), TRUE)

\* current_process: the index of every row, the Quality Filter, the local
\* columns
current_process(rows) == format_data(clean_data(WithIpm25(rows)), TRUE)

\* a worksheet is a sequence of rows; the header row of a table
HeaderRow(cols) == [header |-> cols]

\* in_sheet.get_all_records(): the rows below the first one, keyed by it
get_all_records(sheet) == IF Len(sheet) <= 1 THEN <<>> ELSE Tail(sheet)

\* resample(PROCESS_RESAMPLE_RULE): the start of the bucket of a time stamp
BucketStart(t) == (t \div PROCESS_RESAMPLE_RULE) * PROCESS_RESAMPLE_RULE

\* a variant of the grouping that resamples without groupby('name')
BucketRowsOfAnySensor(rows, n, b) ==
  SelectSeq(rows, LAMBDA r : BucketStart(r.time_stamp) = b)

\* the rows of one sensor in one bucket (a group of groupby('name').resample)
BucketRows(rows, n, b) ==
  SelectSeq(rows, LAMBDA r : r.name = n /\ BucketStart(r.time_stamp) = b)

\* .mean(numeric_only=True) of one group, then format_data: the channels
\* rounded to 2 decimals, the other numeric columns cut to integers
MeanRow(g, n, b, local) ==
  LET cnt == Len(g)
      base == [time_stamp |-> b, name |-> n,
               sensor_index |-> SumSeq(Column(g, "sensor_index")) \div cnt,
               pm25_atm_a |-> RoundDiv(SumSeq(Column(g, "pm25_atm_a")), cnt),
               pm25_atm_b |-> RoundDiv(SumSeq(Column(g, "pm25_atm_b")), cnt),
               Ipm25 |-> Trunc(SumSeq(Column(g, "Ipm25")), cnt)]
  IN  IF local
      THEN [c \in DOMAIN base \cup {"rssi", "uptime"} |->
              IF c = "rssi" THEN Trunc(SumSeq(Column(g, "rssi")), cnt)
              ELSE IF c = "uptime" THEN Trunc(SumSeq(Column(g, "uptime")), cnt)
              ELSE base[c]]
      ELSE base

\* the buckets of sensor n that hold a reading, ascending (the empty buckets
\* between them are all-NaN rows, which dropna removes)
SensorBuckets(rows, n) ==
  SortedInts({BucketStart(rows[i].time_stamp) :
                i \in {j \in DOMAIN rows : rows[j].name = n}})

\* the Quality Filter on the mean of a group, before it is rounded
MeanKeep(g) ==
  CleanKeepQ(SumSeq(Column(g, "pm25_atm_a")), SumSeq(Column(g, "pm25_atm_b")),
             Len(g))

\* process_data, lines 381-400, for the rows of one raw worksheet:
\* df_summarized after groupby/resample/mean, dropna, clean_data, format_data
Summarize(rows, local) ==
  LET withI == WithIpm25(rows)
      perSensor(n) ==
        LET bs == SensorBuckets(withI, n)
            kept == SelectSeq(bs, LAMBDA b : MeanKeep(BucketRows(withI, n, b)))
        IN  [i \in DOMAIN kept |->
               MeanRow(BucketRows(withI, n, kept[i]), n, kept[i], local)]
  IN  Flatten([i \in DOMAIN SENSOR_ORDER |-> perSensor(SENSOR_ORDER[i])])

\* the loop body of process_data raises on an empty DataFrame (it has no
\* 'time_stamp' column) and on a '' channel value (AQI.calculate)
SummarizeRaises(rows) == rows = <<>> \/ Ipm25Raises(rows)

\* k.upper()
Upper(n) ==
  CASE n = "PA-II" -> "PA-II"
    [] n = "Oz Terramor" -> "OZ TERRAMOR"

health_cols == <<"NAME", "CONFIDENCE", "MAX ERROR", "RSSI", "UPTIME">>

\* sensor_health, lines 420-439: df_health, one row per sensor name
HealthTable(rows) ==
  LET good == clean_data(rows)
      ofName(t, n) == SelectSeq(t, LAMBDA r : r.name = n)
      names == SelectSeq(SENSOR_ORDER, LAMBDA n : ofName(rows, n) # <<>>)
      dif(g) == [i \in DOMAIN g |-> Abs(g[i].pm25_atm_a - g[i].pm25_atm_b)]
  IN  [i \in DOMAIN names |->
         LET g == ofName(rows, names[i])
             gg == ofName(good, names[i])
         IN  [NAME |-> Upper(names[i]),
              \* get_group raises KeyError when no row of the sensor is good
              CONFIDENCE |-> IF gg = <<>> THEN 100
                             ELSE RoundDiv(100 * Len(gg), Len(g)),
              MAX_ERROR |-> MaxSeq(dif(g)),
              RSSI |-> RoundDiv(100 * SumSeq(Column(g, "rssi")), Len(g)),
              UPTIME |-> MaxSeq(Column(g, "uptime"))]]

stats_cols == <<"Region", "Mean", "Max">>

\* regional_stats, lines 465-470: the summary row of one region
StatsRow(k, rows) ==
  [Region |-> DisplayName(k),
   Mean |-> RoundDiv(100 * SumSeq(Column(rows, "Ipm25")), Len(rows)),
   Max |-> MaxSeq(Column(rows, "Ipm25"))]

-----------------------------------------------------------------------------
(* The state *)

\* a start time before line 501 assigns it
Unset == -1

\* timedelta(minutes=5), in ticks
FIVE_MINUTES == 1

\* five_min_ago of main: the program starts at tick 0
five_min_ago == 0 - FIVE_MINUTES

\* a variant of SeedRegions that ignores the flag
SeedRegionsLocalOnly(r) == <<LOCAL_REGION>>

\* the regions the seed poll visits
SeedRegions(r) == IF r THEN BBOX_KEYS ELSE <<LOCAL_REGION>>

RawSheets == {BBOX_KEYS[i] : i \in DOMAIN BBOX_KEYS}
ProcSheets == {ProcName(BBOX_KEYS[i]) : i \in DOMAIN BBOX_KEYS}
ReplaceSheets ==
  ProcSheets \cup {CURRENT_WORKSHEET_NAME, OUT_WORKSHEET_HEALTH_NAME,
                   OUT_WORKSHEET_REGIONAL_NAME}
Worksheets == RawSheets \cup ReplaceSheets

\* the columns of a raw worksheet (get_pa_data's cols)
RawCols(k) ==
  IF k = LOCAL_REGION
  THEN <<"time_stamp", "sensor_index", "name", "rssi", "uptime",
         "pm2.5_atm_a", "pm2.5_atm_b">>
  ELSE <<"time_stamp", "sensor_index", "name", "pm2.5_atm_a", "pm2.5_atm_b">>

\* what an earlier run of the logger left in a raw worksheet: nothing, or a
\* reading taken before this run started
EarlierRows(k) == get_pa_data("ok", <<SensorGood>>, k = LOCAL_REGION, five_min_ago)

NoCall == [fn |-> "none", ws |-> "", mode |-> "", rows |-> <<>>, cols |-> <<>>,
           max_attempts |-> 0, delay |-> 0, escalation |-> 0]

\* hist records, for the properties only:
\*   fire     the timer action (or the seed) that ran last or is running
\*   done     whether that action has run to its end
\*   began    the tick at which it began
\*   log      its fetches and the writes it issued, in order
\*   resets   the timers whose start time it has reset
\*   fired    the timers that fired in the current loop iteration
\*   pending  1: a local action longer than the regional interval has ended;
\*            2: and the loop has polled the elapsed times since;
\*            3: and the regional timer has fired on that poll
\*   calls    invocations of the wrapped function by the current retry call
\*   sleeps   the sleeps of the current retry call
\*   at       where the program was when the operator interrupted it
NoHist == [fire |-> "none", done |-> TRUE, began |-> 0, log |-> <<>>,
           resets |-> {}, fired |-> <<>>, pending |-> 0, calls |-> 0,
           sleeps |-> <<>>, at |-> <<>>]

Init ==
  /\ pc = "seed"
  /\ regional \in BOOLEAN
  /\ now = 0
  /\ local_start = Unset /\ regional_start = Unset
  /\ process_start = Unset /\ status_start = Unset
  /\ local_et = 0 /\ regional_et = 0 /\ process_et = 0
  /\ \E earlier \in BOOLEAN :
       sheets = [w \in Worksheets |->
                   IF w \in RawSheets
                   THEN <<HeaderRow(RawCols(w))>>
                          \o (IF earlier THEN EarlierRows(w) ELSE <<>>)
                   ELSE <<>>]
  /\ df = <<>> /\ df_local = <<>>
  /\ idx = 1
  /\ df_regional_stats = <<>>
  /\ call = NoCall /\ wpc = "none" /\ attempts = 0 /\ ret = <<>>
  /\ faults = MaxFaults /\ down = FALSE /\ api_left = MaxData
  /\ hist = [NoHist EXCEPT !.fire = "seed", !.done = FALSE]

-----------------------------------------------------------------------------
(* Steps shared by the actions *)

\* a blocking call returns d ticks later
Tick(d) == now + d <= MaxTime /\ now' = now + d

\* what session.get can answer: no response at all, or a response of either
\* status with a `data` array
FetchReplies ==
  {x \in FetchOutcomes \X ApiData : x[1] = "exception" => x[2] = <<>>}

\* what a call of get_pa_data at tick t can meet and what it returns
Fetches(local, t) ==
  {[outcome |-> x[1], rows |-> get_pa_data(x[1], x[2], local, t)] :
     x \in {y \in FetchReplies : (y[1] = "ok" /\ y[2] # <<>>) => api_left > 0}}

\* the sensor API has answered a request with rows
Fetched(rows) == api_left' = IF Len(rows) > 0 THEN api_left - 1 ELSE api_left

FetchEvent(k, since, f) ==
  [ev |-> "fetch", ws |-> k, since |-> since, outcome |-> f.outcome,
   n |-> Len(f.rows)]

\* the calls of write_data and get_gsheet_data as the log records them
WriteEvent(ws, mode) == [ev |-> "write_data", ws |-> ws, mode |-> mode]
ReadEvent(ws) == [ev |-> "get_gsheet_data", ws |-> ws, mode |-> ""]

\* the arguments of the decorators of write_data and get_gsheet_data
RetryArgs(fn) == [max_attempts |-> 9, delay |-> 90, escalation |-> 90]

\* main (or a function it called) calls a retry-wrapped function and resumes
\* at `next` when the call returns; h is the history so far
StartCall(fn, ws, mode, rows, cols, next, h) ==
  /\ call' = [fn |-> fn, ws |-> ws, mode |-> mode, rows |-> rows, cols |-> cols,
              max_attempts |-> RetryArgs(fn).max_attempts,
              delay |-> RetryArgs(fn).delay,
              escalation |-> RetryArgs(fn).escalation]
  /\ wpc' = "invoke"
  /\ attempts' = 0
  /\ pc' = next
  /\ hist' = [h EXCEPT !.calls = 0, !.sleeps = <<>>,
                       !.log = Append(@, [ev |-> fn, ws |-> ws, mode |-> mode])]

\* main moves on to `next` without a call
Goto(next, h) ==
  /\ pc' = next
  /\ hist' = h
  /\ UNCHANGED <<call, wpc, attempts>>

\* a timer's action (or the seed poll) has run to its end
End(h) == [h EXCEPT !.done = TRUE]

\* a timer's action begins
Begin(timer) ==
  [hist EXCEPT !.fire = timer, !.done = FALSE, !.began = now, !.log = <<>>,
               !.resets = {}, !.fired = Append(@, timer)]

store_env == <<faults, down>>
env == <<store_env, api_left>>
timers == <<local_start, regional_start, process_start, status_start>>
polled == <<local_et, regional_et, process_et>>

-----------------------------------------------------------------------------
(* main: the seed poll, lines 477-501 *)

\* one region of the seed poll: get_pa_data(five_min_ago, ...) and, when rows
\* came back, write_data(..., 'append')
SeedFetch ==
  /\ pc = "seed" /\ wpc = "none"
  /\ idx <= Len(SeedRegions(regional))
  /\ LET k == SeedRegions(regional)[idx] IN
     \E d \in Durations :
       /\ Tick(d)
       /\ \E f \in Fetches(k = LOCAL_REGION, now') :
            /\ Fetched(f.rows)
            /\ LET h == [hist EXCEPT !.log = Append(@, FetchEvent(k, five_min_ago, f))]
               IN  IF Len(f.rows) > 0
                   THEN StartCall("write_data", k, "append", f.rows, <<>>, "seed", h)
                   ELSE Goto("seed", h)
  /\ idx' = idx + 1
  /\ UNCHANGED <<store_env, regional, timers, polled, sheets, df, df_local,
                 df_regional_stats, ret>>

\* line 501
InitTimers ==
  /\ pc = "seed" /\ wpc = "none"
  /\ idx > Len(SeedRegions(regional))
  /\ local_start' = now /\ regional_start' = now
  /\ process_start' = now /\ status_start' = now
  /\ idx' = 1
  /\ Goto("loop", End(hist))
  /\ UNCHANGED <<env, regional, now, polled, sheets, df, df_local,
                 df_regional_stats, ret>>

-----------------------------------------------------------------------------
(* main: the loop, lines 502-533 *)

\* a variant of elapsed_time that forgets the start time
elapsed_time_since_zero(t, start) == t

\* elapsed_time at tick t
elapsed_time(t, start) == t - start

\* lines 504-507: the idle sleep, the poll of the elapsed times, the status
\* table
LoopHead ==
  /\ pc = "loop" /\ wpc = "none"
  /\ \E d \in Durations : Tick(d)
  /\ local_et' = elapsed_time(now', local_start)
  /\ regional_et' = elapsed_time(now', regional_start)
  /\ process_et' = elapsed_time(now', process_start)
  /\ status_start' = IF elapsed_time(now', status_start) >= STATUS_INTERVAL_DURATION
                     THEN now' ELSE status_start
  /\ Goto("local_check",
          [hist EXCEPT !.fired = <<>>,
                       !.pending = IF @ = 1 THEN 2 ELSE 0])
  /\ UNCHANGED <<env, regional, local_start, regional_start, process_start, sheets,
                 df, df_local, idx, df_regional_stats, ret>>

\* line 508, the guard of the local timer
LocalDue == local_et >= LOCAL_INTERVAL_DURATION

\* lines 508-513: the local timer fires and fetches
LocalFetch ==
  /\ pc = "local_check" /\ wpc = "none"
  /\ LocalDue
  /\ \E d \in Durations :
       /\ Tick(d)
       /\ \E f \in Fetches(TRUE, now') :
            /\ df_local' = f.rows
            /\ Fetched(f.rows)
            /\ LET h == [Begin("local") EXCEPT
                           !.log = <<FetchEvent(LOCAL_REGION, local_start, f)>>]
               IN  IF Len(f.rows) > 0
                   THEN StartCall("write_data", LOCAL_WORKSHEET_NAME, "append",
                                  f.rows, <<>>, "local_sleep", h)
                   ELSE Goto("local_reset", h)
  /\ UNCHANGED <<store_env, regional, timers, polled, sheets, df, idx, df_regional_stats, ret>>

LocalSkip ==
  /\ pc = "local_check" /\ wpc = "none"
  /\ ~LocalDue
  /\ Goto("regional_check", hist)
  /\ UNCHANGED <<env, regional, now, timers, polled, sheets, df, df_local, idx,
                 df_regional_stats, ret>>

\* line 514
LocalSleep ==
  /\ pc = "local_sleep" /\ wpc = "none"
  /\ \E d \in Durations : Tick(d)
  /\ Goto("local_current", hist)
  /\ UNCHANGED <<env, regional, timers, polled, sheets, df, df_local, idx,
                 df_regional_stats, ret>>

\* lines 515-517: current_process (which adds its columns to df_local in
\* place) and the replace-write of Current; a '' channel value raises
LocalCurrent ==
  /\ pc = "local_current" /\ wpc = "none"
  /\ IF Ipm25Raises(df_local)
     THEN Goto("crashed", hist) /\ UNCHANGED df_local
     ELSE /\ df_local' = WithIpm25(df_local)
          /\ StartCall("write_data", CURRENT_WORKSHEET_NAME, "update",
                       current_process(df_local), local_cols, "local_reset", hist)
  /\ UNCHANGED <<env, regional, now, timers, polled, sheets, df, idx,
                 df_regional_stats, ret>>

\* a variant of line 518 that restarts the regional timer as well
LocalResetAll ==
  /\ pc = "local_reset" /\ wpc = "none"
  /\ local_start' = now /\ regional_start' = now
  /\ df_local' = <<>>
  /\ Goto("regional_check",
          [End(hist) EXCEPT !.resets = @ \cup {"local"},
                            !.pending = IF now - hist.began > REGIONAL_INTERVAL_DURATION
                                        THEN 1 ELSE @])
  /\ UNCHANGED <<env, regional, now, process_start, status_start,
                 polled, sheets, df, idx, df_regional_stats, ret>>

\* line 518 (df_local is not read again before line 510 assigns it)
LocalReset ==
  /\ pc = "local_reset" /\ wpc = "none"
  /\ local_start' = now
  /\ df_local' = <<>>
  /\ Goto("regional_check",
          [End(hist) EXCEPT !.resets = @ \cup {"local"},
                            !.pending = IF now - hist.began > REGIONAL_INTERVAL_DURATION
                                        THEN 1 ELSE @])
  /\ UNCHANGED <<env, regional, now, regional_start, process_start, status_start,
                 polled, sheets, df, idx, df_regional_stats, ret>>

\* line 519, the guard of the regional timer
RegionalDue == regional_et > REGIONAL_INTERVAL_DURATION

\* lines 519-521: the regional timer fires
RegionalBegin ==
  /\ pc = "regional_check" /\ wpc = "none"
  /\ RegionalDue
  /\ idx' = 1
  /\ Goto("regional_fetch",
          [Begin("regional") EXCEPT !.pending = IF @ = 2 THEN 3 ELSE 0])
  /\ UNCHANGED <<env, regional, now, timers, polled, sheets, df, df_local,
                 df_regional_stats, ret>>

RegionalSkip ==
  /\ pc = "regional_check" /\ wpc = "none"
  /\ ~RegionalDue
  /\ Goto("process_check", hist)
  /\ UNCHANGED <<env, regional, now, timers, polled, sheets, df, df_local, idx,
                 df_regional_stats, ret>>

\* lines 522-525: one region of the regional timer
RegionalFetch ==
  /\ pc = "regional_fetch" /\ wpc = "none"
  /\ LET k == REGIONAL_KEYS[idx] IN
     \E d \in Durations :
       /\ Tick(d)
       /\ \E f \in Fetches(FALSE, now') :
            /\ Fetched(f.rows)
            /\ LET h == [hist EXCEPT !.log = Append(@, FetchEvent(k, regional_start, f))]
               IN  IF Len(f.rows) > 0
                   THEN StartCall("write_data", k, "append", f.rows, <<>>,
                                  "regional_sleep", h)
                   ELSE Goto("regional_sleep", h)
  /\ UNCHANGED <<store_env, regional, timers, polled, sheets, df, df_local, idx,
                 df_regional_stats, ret>>

\* line 526, and the for statement of line 521
RegionalSleep ==
  /\ pc = "regional_sleep" /\ wpc = "none"
  /\ \E d \in Durations : Tick(d)
  /\ IF idx < Len(REGIONAL_KEYS)
     THEN idx' = idx + 1 /\ Goto("regional_fetch", hist)
     ELSE idx' = 1 /\ Goto("regional_reset", hist)
  /\ UNCHANGED <<env, regional, timers, polled, sheets, df, df_local,
                 df_regional_stats, ret>>

\* line 527
RegionalReset ==
  /\ pc = "regional_reset" /\ wpc = "none"
  /\ regional_start' = now
  /\ Goto("process_check", [End(hist) EXCEPT !.resets = @ \cup {"regional"}])
  /\ UNCHANGED <<env, regional, now, local_start, process_start, status_start,
                 polled, sheets, df, df_local, idx, df_regional_stats, ret>>

\* line 528, the guard of the process timer
ProcessDue == process_et > PROCESS_INTERVAL_DURATION

\* line 528: the process timer fires, process_data starts its loop
ProcessBegin ==
  /\ pc = "process_check" /\ wpc = "none"
  /\ ProcessDue
  /\ idx' = 1
  /\ Goto("proc_read", Begin("process"))
  /\ UNCHANGED <<env, regional, now, timers, polled, sheets, df, df_local,
                 df_regional_stats, ret>>

ProcessSkip ==
  /\ pc = "process_check" /\ wpc = "none"
  /\ ~ProcessDue
  /\ Goto("loop", hist)
  /\ UNCHANGED <<env, regional, now, timers, polled, sheets, df, df_local, idx,
                 df_regional_stats, ret>>

\* process_data, line 374: read the raw worksheet of region idx
ProcRead ==
  /\ pc = "proc_read" /\ wpc = "none"
  /\ StartCall("get_gsheet_data", BBOX_KEYS[idx], "", <<>>, <<>>, "proc_body", hist)
  /\ UNCHANGED <<env, regional, now, timers, polled, sheets, df, df_local, idx,
                 df_regional_stats, ret>>

\* process_data, lines 375-401: keep the local rows for sensor_health,
\* summarize, replace-write '<region> Proc'; the body raises on an empty
\* table and on a '' channel value
ProcBody ==
  /\ pc = "proc_body" /\ wpc = "none"
  /\ LET k == BBOX_KEYS[idx] IN
       /\ df' = IF k = LOCAL_REGION THEN ret ELSE df
       /\ IF SummarizeRaises(ret)
          THEN Goto("crashed", hist)
          ELSE StartCall("write_data", ProcName(k), "update",
                         Summarize(ret, k = LOCAL_REGION),
                         IF k = LOCAL_REGION THEN local_cols ELSE regional_cols,
                         "proc_sleep", hist)
  /\ ret' = <<>>
  /\ UNCHANGED <<env, regional, now, timers, polled, sheets, df_local, idx,
                 df_regional_stats>>

\* process_data, line 402, and the for statement of line 370
ProcSleep ==
  /\ pc = "proc_sleep" /\ wpc = "none"
  /\ \E d \in Durations : Tick(d)
  /\ IF idx < Len(BBOX_KEYS)
     THEN idx' = idx + 1 /\ Goto("proc_read", hist)
     ELSE idx' = 1 /\ Goto("process_reset", hist)
  /\ UNCHANGED <<env, regional, timers, polled, sheets, df, df_local,
                 df_regional_stats, ret>>

\* a variant of lines 529-531 that never runs the reports
ProcessResetOnly ==
  /\ pc = "process_reset" /\ wpc = "none"
  /\ process_start' = now
  /\ Goto("loop", [End(hist) EXCEPT !.resets = @ \cup {"process"}])
  /\ UNCHANGED <<env, regional, now, local_start, regional_start, status_start,
                 polled, sheets, df, df_local, idx, df_regional_stats, ret>>

\* lines 529-531: process_data has returned df_local; the process timer is
\* reset; the reports run when the local table has rows
ProcessReset ==
  /\ pc = "process_reset" /\ wpc = "none"
  /\ process_start' = now
  /\ IF Len(df) > 0
     THEN Goto("health", [hist EXCEPT !.resets = @ \cup {"process"}])
     ELSE Goto("loop", [End(hist) EXCEPT !.resets = @ \cup {"process"}])
  /\ UNCHANGED <<env, regional, now, local_start, regional_start, status_start,
                 polled, sheets, df, df_local, idx, df_regional_stats, ret>>

\* sensor_health, lines 420-440 (main does not read df again before line 529
\* assigns it)
Health ==
  /\ pc = "health" /\ wpc = "none"
  /\ StartCall("write_data", OUT_WORKSHEET_HEALTH_NAME, "update",
               HealthTable(df), health_cols, "health_sleep", hist)
  /\ df' = <<>>
  /\ UNCHANGED <<env, regional, now, timers, polled, sheets, df_local, idx,
                 df_regional_stats, ret>>

\* sensor_health, line 441; regional_stats, lines 458-460
HealthSleep ==
  /\ pc = "health_sleep" /\ wpc = "none"
  /\ \E d \in Durations : Tick(d)
  /\ idx' = 1
  /\ df_regional_stats' = <<>>
  /\ Goto("stats_read", hist)
  /\ UNCHANGED <<env, regional, timers, polled, sheets, df, df_local, ret>>

\* regional_stats, line 463: read '<region> Proc' of region idx
StatsRead ==
  /\ pc = "stats_read" /\ wpc = "none"
  /\ StartCall("get_gsheet_data", ProcName(BBOX_KEYS[idx]), "", <<>>, <<>>,
               "stats_body", hist)
  /\ UNCHANGED <<env, regional, now, timers, polled, sheets, df, df_local, idx,
                 df_regional_stats, ret>>

\* a variant of regional_stats with the write of line 473 inside the if
\* statement of line 464
StatsBodyWritesRowsOnly ==
  /\ pc = "stats_body" /\ wpc = "none"
  /\ IF Len(ret) > 0
     THEN /\ \E d \in Durations : Tick(d)
          /\ df_regional_stats' =
               Append(df_regional_stats, StatsRow(BBOX_KEYS[idx], ret))
          /\ StartCall("write_data", OUT_WORKSHEET_REGIONAL_NAME, "update",
                       df_regional_stats', stats_cols, "stats_next", hist)
     ELSE /\ Goto("stats_next", hist)
          /\ UNCHANGED <<now, df_regional_stats>>
  /\ ret' = <<>>
  /\ UNCHANGED <<env, regional, timers, polled, sheets, df, df_local, idx>>

\* regional_stats, lines 464-473: the summary row of a non-empty table, the
\* pause, and the replace-write of Regional
StatsBody ==
  /\ pc = "stats_body" /\ wpc = "none"
  /\ \E d \in Durations :
       /\ IF Len(ret) > 0
          THEN Tick(d) /\ df_regional_stats' =
                           Append(df_regional_stats, StatsRow(BBOX_KEYS[idx], ret))
          ELSE d = 0 /\ UNCHANGED <<now, df_regional_stats>>
  /\ StartCall("write_data", OUT_WORKSHEET_REGIONAL_NAME, "update",
               df_regional_stats', stats_cols, "stats_next", hist)
  /\ ret' = <<>>
  /\ UNCHANGED <<env, regional, timers, polled, sheets, df, df_local, idx>>

\* regional_stats, the for statement of line 461; the end of the action
StatsNext ==
  /\ pc = "stats_next" /\ wpc = "none"
  /\ IF idx < Len(BBOX_KEYS)
     THEN idx' = idx + 1 /\ Goto("stats_read", hist)
     ELSE idx' = 1 /\ Goto("loop", End(hist))
  /\ df_regional_stats' = IF idx < Len(BBOX_KEYS) THEN df_regional_stats ELSE <<>>
  /\ UNCHANGED <<env, regional, now, timers, polled, sheets, df, df_local, ret>>

-----------------------------------------------------------------------------
(* retry.wrapper, lines 110-123, and the wrapped functions *)

\* what a call of the spreadsheet API does: it succeeds; it raises a
\* retryable exception and changes nothing; it raises one (a read timeout)
\* after the store has applied the request; or the store is down, and
\* raises on this call and on every later one.  An outage shows at the
\* call that opens the worksheet, the first one of every attempt.
StoreOutcomes == {"ok", "raise_before", "raise_after"}
ReadOutcomes == {"ok", "raise_before"}
OpenOutcomes == {"ok", "raise_before", "down"}

Applied(o) == o \in {"ok", "raise_after"}

\* a variant of line 116 that counts the failed attempt in
AdjustedDelayAfter(delay, escalation, n) == delay + escalation * (n + 1)

\* line 116
AdjustedDelay(delay, escalation, n) == delay + escalation * n

wrapper_frame == <<pc, regional, timers, polled, df, df_local, idx,
                   df_regional_stats>>

\* the store answers a call with outcome o
StoreCall(o) ==
  /\ down => o = "down"
  /\ o \in {"raise_before", "raise_after"} => faults > 0
  /\ faults' = IF o \in {"raise_before", "raise_after"} THEN faults - 1 ELSE faults
  /\ down' = (o = "down")

\* lines 112-114: the loop test and the call of func
RetryInvoke ==
  /\ wpc = "invoke"
  /\ attempts < call.max_attempts
  /\ wpc' = IF call.fn = "write_data" THEN "wd_open" ELSE "gg_open"
  /\ hist' = [hist EXCEPT !.calls = @ + 1]
  /\ UNCHANGED <<wrapper_frame, env, now, sheets, call, attempts, ret>>

\* lines 115-120: the except clause
RetryExcept ==
  /\ wpc = "except"
  /\ attempts' = attempts + 1
  /\ IF attempts + 1 < call.max_attempts
     THEN /\ \E d \in Durations : Tick(d)
          /\ hist' = [hist EXCEPT !.sleeps =
                        Append(@, AdjustedDelay(call.delay, call.escalation, attempts))]
          /\ wpc' = "invoke"
     ELSE /\ wpc' = "exhausted"
          /\ UNCHANGED <<now, hist>>
  /\ UNCHANGED <<wrapper_frame, env, sheets, call, ret>>

\* a variant of lines 121-123 that falls out of the wrapper: the caller goes on
\* with None
RetryExhaustedReturns ==
  /\ wpc = "exhausted"
  /\ wpc' = "none"
  /\ UNCHANGED <<env, pc, regional, now, timers, polled, sheets, df, df_local, idx,
                 df_regional_stats, call, attempts, ret, hist>>

\* lines 121-123: sys.exit(1)
RetryExhausted ==
  /\ wpc = "exhausted"
  /\ pc' = "exit1"
  /\ wpc' = "none"
  /\ UNCHANGED <<env, regional, now, timers, polled, sheets, df, df_local, idx,
                 df_regional_stats, call, attempts, ret, hist>>

\* the wrapped function returns v to the caller of the wrapper
Return(v) ==
  /\ wpc' = "none"
  /\ ret' = v
  /\ UNCHANGED call

\* the wrapped function raises a retryable exception
Raise ==
  /\ wpc' = "except"
  /\ UNCHANGED <<call, ret>>

\* write_data, line 312
WdOpen ==
  /\ wpc = "wd_open"
  /\ \E d \in Durations : Tick(d)
  /\ \E o \in OpenOutcomes :
       /\ StoreCall(o)
       /\ IF o = "ok"
          THEN /\ wpc' = IF call.mode = "append" THEN "wd_append" ELSE "wd_clear"
               /\ UNCHANGED <<call, ret>>
          ELSE Raise
  /\ UNCHANGED <<wrapper_frame, api_left, sheets, attempts, hist>>

\* a variant of line 314 that puts the rows in the place of the worksheet's
WdAppendOverwrites ==
  /\ wpc = "wd_append"
  /\ \E d \in Durations : Tick(d)
  /\ \E o \in StoreOutcomes :
       /\ StoreCall(o)
       /\ sheets' = IF Applied(o)
                    THEN [sheets EXCEPT ![call.ws] = call.rows]
                    ELSE sheets
       /\ IF o = "ok" THEN Return(<<>>) ELSE Raise
  /\ UNCHANGED <<wrapper_frame, api_left, attempts, hist>>

\* write_data, line 314
WdAppend ==
  /\ wpc = "wd_append"
  /\ \E d \in Durations : Tick(d)
  /\ \E o \in StoreOutcomes :
       /\ StoreCall(o)
       /\ sheets' = IF Applied(o)
                    THEN [sheets EXCEPT ![call.ws] = @ \o call.rows]
                    ELSE sheets
       /\ IF o = "ok" THEN Return(<<>>) ELSE Raise
  /\ UNCHANGED <<wrapper_frame, api_left, attempts, hist>>

\* a variant of line 316 that leaves the worksheet as it is
WdClearSkipped ==
  /\ wpc = "wd_clear"
  /\ \E d \in Durations : Tick(d)
  /\ wpc' = "wd_header"
  /\ UNCHANGED <<wrapper_frame, env, sheets, call, ret, attempts, hist>>

\* write_data, line 316
WdClear ==
  /\ wpc = "wd_clear"
  /\ \E d \in Durations : Tick(d)
  /\ \E o \in StoreOutcomes :
       /\ StoreCall(o)
       /\ sheets' = IF Applied(o) THEN [sheets EXCEPT ![call.ws] = <<>>] ELSE sheets
       /\ IF o = "ok" THEN wpc' = "wd_header" /\ UNCHANGED <<call, ret>> ELSE Raise
  /\ UNCHANGED <<wrapper_frame, api_left, attempts, hist>>

\* write_data, line 318
WdHeader ==
  /\ wpc = "wd_header"
  /\ \E d \in Durations : Tick(d)
  /\ \E o \in StoreOutcomes :
       /\ StoreCall(o)
       /\ sheets' = IF Applied(o)
                    THEN [sheets EXCEPT ![call.ws] = Append(@, HeaderRow(call.cols))]
                    ELSE sheets
       /\ IF o = "ok" THEN wpc' = "wd_data" /\ UNCHANGED <<call, ret>> ELSE Raise
  /\ UNCHANGED <<wrapper_frame, api_left, attempts, hist>>

\* write_data, line 319
WdData ==
  /\ wpc = "wd_data"
  /\ \E d \in Durations : Tick(d)
  /\ \E o \in StoreOutcomes :
       /\ StoreCall(o)
       /\ sheets' = IF Applied(o)
                    THEN [sheets EXCEPT ![call.ws] = @ \o call.rows]
                    ELSE sheets
       /\ IF o = "ok" THEN Return(<<>>) ELSE Raise
  /\ UNCHANGED <<wrapper_frame, api_left, attempts, hist>>

\* get_gsheet_data, line 238
GgOpen ==
  /\ wpc = "gg_open"
  /\ \E d \in Durations : Tick(d)
  /\ \E o \in OpenOutcomes :
       /\ StoreCall(o)
       /\ IF o = "ok" THEN wpc' = "gg_read" /\ UNCHANGED <<call, ret>> ELSE Raise
  /\ UNCHANGED <<wrapper_frame, api_left, sheets, attempts, hist>>

\* get_gsheet_data, lines 239-240
GgRead ==
  /\ wpc = "gg_read"
  /\ \E d \in Durations : Tick(d)
  /\ \E o \in ReadOutcomes :
       /\ StoreCall(o)
       /\ IF o = "ok" THEN Return(get_all_records(sheets[call.ws])) ELSE Raise
  /\ UNCHANGED <<wrapper_frame, api_left, sheets, attempts, hist>>

-----------------------------------------------------------------------------
(* The operator's interrupt, lines 503 and 534-535 *)

\* the process has not ended
Running == pc \notin {"exit0", "exit1", "crashed", "interrupted"}

\* main is inside the try statement of the loop, lines 503-533, whatever the
\* function it has called
InTry == Running /\ pc \notin {"seed", "caller"}

\* the process has ended: its variables are gone, the store and the clock stay
Exited ==
  /\ wpc' = "none" /\ call' = NoCall /\ attempts' = 0 /\ ret' = <<>>
  /\ regional' = FALSE
  /\ local_start' = Unset /\ regional_start' = Unset
  /\ process_start' = Unset /\ status_start' = Unset
  /\ local_et' = 0 /\ regional_et' = 0 /\ process_et' = 0
  /\ df' = <<>> /\ df_local' = <<>> /\ idx' = 1 /\ df_regional_stats' = <<>>
  /\ UNCHANGED <<env, now, sheets>>

Interrupted ==
  [NoHist EXCEPT !.fire = "interrupt",
                 !.at = [pc |-> pc, wpc |-> wpc, attempts |-> attempts]]

\* a variant in which the except clause of retry, line 115, takes the
\* interrupt for one of the exceptions it retries
KeyboardInterruptRetried ==
  /\ Running
  /\ IF wpc \in {"none", "exhausted"}
     THEN /\ pc' = IF InTry THEN "exit0" ELSE "interrupted"
          /\ hist' = Interrupted
          /\ Exited
     ELSE /\ wpc' = "except"
          /\ hist' = [hist EXCEPT !.fire = "interrupt",
                                  !.at = [pc |-> pc, wpc |-> wpc,
                                          attempts |-> attempts]]
          /\ UNCHANGED <<wrapper_frame, env, now, sheets, call, attempts, ret>>

\* KeyboardInterrupt is raised at the statement the program is at.  The except
\* clause of retry (line 115) names the exceptions given to the decorator, and
\* KeyboardInterrupt is none of them, so the interrupt leaves a wrapped call as
\* it leaves any other; inside the loop lines 534-535 catch it and call
\* sys.exit(0); the seed poll (lines 477-501) is outside the try statement, so
\* there the interrupt ends the process uncaught
KeyboardInterrupt ==
  /\ Running
  /\ pc' = IF InTry THEN "exit0" ELSE "interrupted"
  /\ hist' = Interrupted
  /\ Exited

-----------------------------------------------------------------------------
(* The specification *)

Main ==
  \/ SeedFetch \/ InitTimers \/ LoopHead
  \/ LocalFetch \/ LocalSkip \/ LocalSleep \/ LocalCurrent \/ LocalReset
  \/ RegionalBegin \/ RegionalSkip \/ RegionalFetch \/ RegionalSleep
  \/ RegionalReset
  \/ ProcessBegin \/ ProcessSkip \/ ProcRead \/ ProcBody \/ ProcSleep
  \/ ProcessReset \/ Health \/ HealthSleep \/ StatsRead \/ StatsBody
  \/ StatsNext

Wrapper ==
  \/ RetryInvoke \/ RetryExcept \/ RetryExhausted
  \/ WdOpen \/ WdAppend \/ WdClear \/ WdHeader \/ WdData
  \/ GgOpen \/ GgRead

Next == Main \/ Wrapper

Spec == Init /\ [][Next]_vars

-----------------------------------------------------------------------------
(* One call of a retry-wrapped function, seen from the call on: any of the  *)
(* two wrapped functions, with the arguments of their decorators or with    *)
(* the defaults of retry, on a worksheet with any earlier content, and a    *)
(* store that may fail every invocation at any of its steps.                *)

\* line 93, the defaults of retry
RetryDefaults == [max_attempts |-> 3, delay |-> 2, escalation |-> 10]

RetryArgSets == {RetryDefaults, RetryArgs("write_data")}

\* DataFrames a caller may pass to write_data
CallRows ==
  {<<>>,
   current_process(get_pa_data("ok", <<SensorGood>>, TRUE, 0)),
   current_process(get_pa_data("ok", <<SensorGood, SensorGood>>, TRUE, 0))}

\* what the worksheet may hold before the call: nothing, a header, a table,
\* rows without a header
EarlierContents ==
  {<<>>,
   <<HeaderRow(local_cols)>>,
   <<HeaderRow(local_cols)>> \o current_process(EarlierRows(LOCAL_REGION)),
   current_process(EarlierRows(LOCAL_REGION))}

RetryCalls ==
  {[fn |-> "write_data", ws |-> CURRENT_WORKSHEET_NAME, mode |-> m, rows |-> r,
    cols |-> local_cols, max_attempts |-> a.max_attempts, delay |-> a.delay,
    escalation |-> a.escalation] :
     m \in {"append", "update"}, r \in CallRows, a \in RetryArgSets}
  \cup
  {[fn |-> "get_gsheet_data", ws |-> CURRENT_WORKSHEET_NAME, mode |-> "",
    rows |-> <<>>, cols |-> <<>>, max_attempts |-> a.max_attempts,
    delay |-> a.delay, escalation |-> a.escalation] : a \in RetryArgSets}

InitRetry ==
  /\ pc = "caller"
  /\ regional = FALSE
  /\ now = 0
  /\ local_start = 0 /\ regional_start = 0
  /\ process_start = 0 /\ status_start = 0
  /\ local_et = 0 /\ regional_et = 0 /\ process_et = 0
  /\ \E earlier \in EarlierContents :
       sheets = [w \in Worksheets |->
                   IF w = CURRENT_WORKSHEET_NAME THEN earlier ELSE <<>>]
  /\ df = <<>> /\ df_local = <<>>
  /\ idx = 1
  /\ df_regional_stats = <<>>
  /\ call \in RetryCalls
  /\ wpc = "invoke" /\ attempts = 0 /\ ret = <<>>
  /\ faults = call.max_attempts /\ down = FALSE /\ api_left = 0
  /\ hist = NoHist

SpecRetry == InitRetry /\ [][Wrapper]_vars

\* a replace-write of rows over a worksheet that holds a table
InitReplace ==
  /\ InitRetry
  /\ call.fn = "write_data" /\ call.mode = "update"
  /\ call.rows # <<>>
  /\ Len(sheets[call.ws]) > 1

ReplaceNext ==
  \/ RetryInvoke \/ RetryExcept \/ RetryExhausted
  \/ WdOpen \/ WdClear \/ WdHeader \/ WdData

SpecReplace == InitReplace /\ [][ReplaceNext]_vars

\* the program with an operator who may interrupt it at any statement
SpecInterrupt == Init /\ [][Next \/ KeyboardInterrupt]_vars

-----------------------------------------------------------------------------
(* The loop on the clock: main from line 501 on, under a configuration of   *)
(* two regions and short intervals, with a sensor API that always returns   *)
(* rows and a store that never fails.  Time is in tenths of a second; only  *)
(* the calls of sleep take time, every other call returns at once.          *)

\* the configuration: BBOX_DICT holds the local region and one more, and the
\* intervals are 5, 10 and 20 seconds
E2E_REGIONS == <<LOCAL_REGION, "RS">>
E2E_REGIONAL_KEYS == <<"RS">>
E2E_LOCAL_INTERVAL == 50
E2E_REGIONAL_INTERVAL == 100
E2E_PROCESS_INTERVAL == 200

\* the time the scenario looks at, 25 seconds, and the time at which the
\* model stops entering the loop body
E2E_RUN == 250
E2E_HORIZON == 500

\* the arguments of the calls of sleep, in tenths of a second
IDLE_SLEEP == 1
LOCAL_PAUSE == 100
REGIONAL_PAUSE == 100
PROCESS_PAUSE == 900
HEALTH_PAUSE == 200
STATS_PAUSE == 900

\* the writes of one call of process_data, sensor_health and regional_stats
TimedProcessWrites ==
  [i \in 1..Len(E2E_REGIONS) |-> WriteEvent(ProcName(E2E_REGIONS[i]), "update")]
    \o <<WriteEvent(OUT_WORKSHEET_HEALTH_NAME, "update")>>
    \o [i \in 1..Len(E2E_REGIONS) |-> WriteEvent(OUT_WORKSHEET_REGIONAL_NAME, "update")]

\* line 501
InitTimed ==
  /\ pc = "loop"
  /\ regional = FALSE
  /\ now = 0
  /\ local_start = 0 /\ regional_start = 0
  /\ process_start = 0 /\ status_start = 0
  /\ local_et = 0 /\ regional_et = 0 /\ process_et = 0
  /\ sheets = [w \in Worksheets |-> <<>>]
  /\ df = <<>> /\ df_local = <<>>
  /\ idx = 1
  /\ df_regional_stats = <<>>
  /\ call = NoCall /\ wpc = "none" /\ attempts = 0 /\ ret = <<>>
  /\ faults = 0 /\ down = FALSE /\ api_left = 0
  /\ hist = NoHist

timed_frame == <<regional, sheets, df, df_local, idx, df_regional_stats, call,
                 wpc, attempts, ret, env>>

\* lines 504-507
TimedLoopHead ==
  /\ pc = "loop"
  /\ now < E2E_HORIZON
  /\ now' = now + IDLE_SLEEP
  /\ local_et' = elapsed_time(now', local_start)
  /\ regional_et' = elapsed_time(now', regional_start)
  /\ process_et' = elapsed_time(now', process_start)
  /\ status_start' = now'
  /\ pc' = "local_check"
  /\ UNCHANGED <<timed_frame, local_start, regional_start, process_start, hist>>

\* lines 508-518: the fetch returns rows, so the append, the pause of line 514
\* and the write of Current all run
TimedLocal ==
  /\ pc = "local_check"
  /\ IF local_et >= E2E_LOCAL_INTERVAL
     THEN /\ now' = now + LOCAL_PAUSE
          /\ local_start' = now'
          /\ hist' = [hist EXCEPT !.log =
                        @ \o <<WriteEvent(LOCAL_WORKSHEET_NAME, "append"),
                               WriteEvent(CURRENT_WORKSHEET_NAME, "update")>>]
     ELSE UNCHANGED <<now, local_start, hist>>
  /\ pc' = "regional_check"
  /\ UNCHANGED <<timed_frame, polled, regional_start, process_start, status_start>>

\* lines 519-527: one append and one pause (line 526) for each regional key
TimedRegional ==
  /\ pc = "regional_check"
  /\ IF regional_et > E2E_REGIONAL_INTERVAL
     THEN /\ now' = now + REGIONAL_PAUSE * Len(E2E_REGIONAL_KEYS)
          /\ regional_start' = now'
          /\ hist' = [hist EXCEPT !.log =
                        @ \o [i \in 1..Len(E2E_REGIONAL_KEYS) |->
                                WriteEvent(E2E_REGIONAL_KEYS[i], "append")]]
     ELSE UNCHANGED <<now, regional_start, hist>>
  /\ pc' = "process_check"
  /\ UNCHANGED <<timed_frame, polled, local_start, process_start, status_start>>

\* lines 528-533: process_data pauses after every region (line 402) and the
\* timer is reset when it returns (line 530); sensor_health pauses once (line
\* 441) and regional_stats after every region with rows (line 472)
TimedProcess ==
  /\ pc = "process_check"
  /\ IF process_et > E2E_PROCESS_INTERVAL
     THEN /\ process_start' = now + PROCESS_PAUSE * Len(E2E_REGIONS)
          /\ now' = process_start' + HEALTH_PAUSE + STATS_PAUSE * Len(E2E_REGIONS)
          /\ hist' = [hist EXCEPT !.log = @ \o TimedProcessWrites]
     ELSE UNCHANGED <<now, process_start, hist>>
  /\ pc' = "loop"
  /\ UNCHANGED <<timed_frame, polled, local_start, regional_start, status_start>>

TimedNext == TimedLoopHead \/ TimedLocal \/ TimedRegional \/ TimedProcess

SpecTimed == InitTimed /\ [][TimedNext]_vars

-----------------------------------------------------------------------------
(* clean_data on its own: a DataFrame of up to MaxRows readings whose       *)
(* channels lie on either side of each threshold is cleaned, and the result *)
(* is cleaned once more.                                                    *)

MaxRows == 2

\* channel values in hundredths: around the absolute difference of 5, the
\* relative difference of 0.7 and the ceiling of 2000
ChannelValues == {0, 100, 1000, 1100, 1499, 1500, 200000, 200001}

Reading(a, b) ==
  [sensor_index |-> SensorGood.sensor_index, name |-> SensorGood.name,
   rssi |-> SensorGood.rssi, uptime |-> SensorGood.uptime,
   pm25_atm_a |-> a, pm25_atm_b |-> b]

\* the DataFrames get_pa_data can return for such readings
CleanInputs ==
  UNION {{get_pa_data("ok", d, FALSE, 0) :
            d \in [1..n -> {Reading(a, b) : a \in ChannelValues, b \in ChannelValues}]} :
         n \in 1..MaxRows}

InitClean ==
  /\ pc = "input"
  /\ regional = FALSE
  /\ now = 0
  /\ local_start = 0 /\ regional_start = 0
  /\ process_start = 0 /\ status_start = 0
  /\ local_et = 0 /\ regional_et = 0 /\ process_et = 0
  /\ sheets = [w \in Worksheets |-> <<>>]
  /\ df \in CleanInputs
  /\ df_local = <<>>
  /\ idx = 1
  /\ df_regional_stats = <<>>
  /\ call = NoCall /\ wpc = "none" /\ attempts = 0 /\ ret = <<>>
  /\ faults = 0 /\ down = FALSE /\ api_left = 0
  /\ hist = NoHist

pure_frame == <<regional, now, timers, polled, sheets, idx, df_regional_stats,
                call, wpc, attempts, env, hist>>

\* df_local = clean_data(df)
CleanOnce ==
  /\ pc = "input"
  /\ df_local' = clean_data(df)
  /\ pc' = "cleaned"
  /\ UNCHANGED <<pure_frame, df, ret>>

\* ret = clean_data(df_local)
CleanTwice ==
  /\ pc = "cleaned"
  /\ ret' = clean_data(df_local)
  /\ pc' = "recleaned"
  /\ UNCHANGED <<pure_frame, df, df_local>>

SpecClean == InitClean /\ [][CleanOnce \/ CleanTwice]_vars

-----------------------------------------------------------------------------
(* The loop body of process_data on its own, lines 374-400: the rows of one *)
(* raw worksheet, up to MaxReadings readings of the two sensors ingested   *)
(* at ticks 0..AggTime, are summarized.                                    *)

MaxReadings == 3
AggTime == 3

\* what a sensor may report: equal channels at two concentrations, channels
\* that differ by more than 5, and channels that differ by 0.01
Measurements ==
  {[rssi |-> -61, uptime |-> 100, pm25_atm_a |-> 200, pm25_atm_b |-> 200],
   [rssi |-> -62, uptime |-> 101, pm25_atm_a |-> 2200, pm25_atm_b |-> 2200],
   [rssi |-> -61, uptime |-> 102, pm25_atm_a |-> 1000, pm25_atm_b |-> 1601],
   [rssi |-> -64, uptime |-> 103, pm25_atm_a |-> 1000, pm25_atm_b |-> 1001]}

Sensors == {[sensor_index |-> s.sensor_index, name |-> s.name] :
              s \in {SensorGood, SensorBad}}

\* the rows of a raw worksheet: each fetched by get_pa_data at its tick and
\* appended, so the time stamps never decrease
RawTables(local) ==
  UNION {{[i \in 1..n |->
             get_pa_data("ok",
                         <<[sensor_index |-> f[i][1].sensor_index,
                            name |-> f[i][1].name,
                            rssi |-> f[i][2].rssi, uptime |-> f[i][2].uptime,
                            pm25_atm_a |-> f[i][2].pm25_atm_a,
                            pm25_atm_b |-> f[i][2].pm25_atm_b]>>,
                         local, f[i][3])[1]] :
            f \in {g \in [1..n -> Sensors \X Measurements \X (0..AggTime)] :
                     \A i \in 1..(n - 1) : g[i][3] <= g[i + 1][3]}} :
         n \in 1..MaxReadings}

\* idx is the position of the loop of line 370 in BBOX_DICT, ret the rows
\* get_gsheet_data has returned
InitAggregate ==
  /\ pc = "proc_body"
  /\ regional = FALSE
  /\ now = 0
  /\ local_start = 0 /\ regional_start = 0
  /\ process_start = 0 /\ status_start = 0
  /\ local_et = 0 /\ regional_et = 0 /\ process_et = 0
  /\ sheets = [w \in Worksheets |-> <<>>]
  /\ idx \in DOMAIN BBOX_KEYS
  /\ ret \in RawTables(BBOX_KEYS[idx] = LOCAL_REGION)
  /\ df = <<>>
  /\ df_local = <<>>
  /\ df_regional_stats = <<>>
  /\ call = NoCall /\ wpc = "none" /\ attempts = 0
  /\ faults = 0 /\ down = FALSE /\ api_left = 0
  /\ hist = NoHist

\* lines 381-400: df_summarized
Aggregate ==
  /\ pc = "proc_body"
  /\ IF SummarizeRaises(ret)
     THEN pc' = "crashed" /\ df' = df
     ELSE pc' = "aggregated"
          /\ df' = Summarize(ret, BBOX_KEYS[idx] = LOCAL_REGION)
  /\ UNCHANGED <<pure_frame, df_local, ret>>

SpecAggregate == InitAggregate /\ [][Aggregate]_vars

-----------------------------------------------------------------------------
(* sensor_health on its own, lines 420-439: the health table of the raw     *)
(* rows of the local worksheet, as process_data hands them over.            *)

InitHealth ==
  /\ pc = "health"
  /\ regional = FALSE
  /\ now = 0
  /\ local_start = 0 /\ regional_start = 0
  /\ process_start = 0 /\ status_start = 0
  /\ local_et = 0 /\ regional_et = 0 /\ process_et = 0
  /\ sheets = [w \in Worksheets |-> <<>>]
  /\ df \in RawTables(TRUE)
  /\ df_local = <<>>
  /\ idx = 1
  /\ df_regional_stats = <<>>
  /\ call = NoCall /\ wpc = "none" /\ attempts = 0 /\ ret = <<>>
  /\ faults = 0 /\ down = FALSE /\ api_left = 0
  /\ hist = NoHist

\* lines 420-439: df_health
HealthReport ==
  /\ pc = "health"
  /\ ret' = HealthTable(df)
  /\ pc' = "reported"
  /\ UNCHANGED <<pure_frame, df, df_local>>

SpecHealth == InitHealth /\ [][HealthReport]_vars

-----------------------------------------------------------------------------
(* regional_stats on its own, lines 458-473, from its first statement on:   *)
(* every Proc worksheet holds what process_data wrote to it, a header with  *)
(* no, one or two summarized rows, and Regional what an earlier cycle left. *)

\* what process_data can have written to the Proc worksheet of region k:
\* the header and the summary of a raw table of c good sensors (c = 1: of a
\* raw table whose only reading fails the Quality Filter)
ProcContent(k, c) ==
  LET local == k = LOCAL_REGION
      cols == IF local THEN local_cols ELSE regional_cols
      bad == get_pa_data("ok", <<SensorBad>>, local, 0)
      one == get_pa_data("ok", <<SensorGood>>, local, 0)
      two == one \o get_pa_data("ok", <<[SensorBad EXCEPT !.pm25_atm_b = 1000]>>,
                                local, PROCESS_RESAMPLE_RULE)
  IN  <<HeaderRow(cols)>>
        \o Summarize(IF c = 1 THEN bad ELSE IF c = 2 THEN one ELSE two, local)

\* what an earlier cycle left in Regional
RegionalContents ==
  {<<>>,
   <<HeaderRow(stats_cols),
     StatsRow(LOCAL_REGION,
              Summarize(get_pa_data("ok", <<SensorGood>>, TRUE, 0), TRUE))>>}

InitStats ==
  /\ pc = "stats_read"
  /\ regional = FALSE
  /\ now = 0
  /\ local_start = 0 /\ regional_start = 0
  /\ process_start = 0 /\ status_start = 0
  /\ local_et = 0 /\ regional_et = 0 /\ process_et = 0
  /\ \E old \in RegionalContents :
     \E c \in [DOMAIN BBOX_KEYS -> 1..3] :
       sheets = [w \in Worksheets |->
                   IF w = OUT_WORKSHEET_REGIONAL_NAME THEN old
                   ELSE IF w \in ProcSheets
                   THEN LET i == CHOOSE j \in DOMAIN BBOX_KEYS :
                                   w = ProcName(BBOX_KEYS[j])
                        IN  ProcContent(BBOX_KEYS[i], c[i])
                   ELSE <<>>]
  /\ df = <<>> /\ df_local = <<>>
  /\ idx = 1
  /\ df_regional_stats = <<>>
  /\ call = NoCall /\ wpc = "none" /\ attempts = 0 /\ ret = <<>>
  /\ faults = MaxFaults /\ down = FALSE /\ api_left = 0
  /\ hist = [NoHist EXCEPT !.fire = "process", !.done = FALSE]

StatsNextStep ==
  \/ StatsRead \/ StatsBody \/ StatsNext
  \/ RetryInvoke \/ RetryExcept \/ RetryExhausted
  \/ GgOpen \/ GgRead
  \/ WdOpen \/ WdClear \/ WdHeader \/ WdData

SpecStats == InitStats /\ [][StatsNextStep]_vars

-----------------------------------------------------------------------------
(* sheet_size_reduce.py: one worksheet of up to MaxSheetRows rows is read,   *)
(* the rows to delete are selected and, when the operator agrees, deleted.  *)
(* A time stamp is a date [year, month, day]; the years are the current one *)
(* (1) and the one before (0), and every month has 30 days.                 *)

MaxSheetRows == 3

\* the days from the start of year 0 to a date
DayNumber(ts) == ts.year * 360 + (ts.month - 1) * 30 + ts.day

\* datetime.now() of line 133
ReduceNows == {[year |-> 1, month |-> m, day |-> d] : m \in {1, 6, 12}, d \in {1, 28}}

\* the time stamps of the rows: the logger stamps a row with the time of its
\* fetch, so none is later than now and none earlier than the one before
ReduceStamps == {[year |-> y, month |-> m, day |-> d] :
                   y \in {0, 1}, m \in {1, 5, 6, 12}, d \in {1, 28}}

ReduceTables(t) ==
  UNION {{f \in [1..n -> {[time_stamp |-> x] : x \in ReduceStamps}] :
            /\ \A i \in 1..n : DayNumber(f[i].time_stamp) <= DayNumber(t)
            /\ \A i \in 1..(n - 1) :
                 DayNumber(f[i].time_stamp) <= DayNumber(f[i + 1].time_stamp)} :
         n \in 0..MaxSheetRows}

\* lines 100-120: --month is an integer of 1..12, --days any integer
ReduceArgs ==
  {[fn |-> "sheet_size_reduce", mnth |-> m, days_to_keep |-> d, warnings |-> w,
    now |-> t] :
     m \in 1..12, d \in {-1, 0, 21, 400}, w \in BOOLEAN, t \in ReduceNows}

\* lines 38-44
is_continuous(rows_to_delete) ==
  /\ rows_to_delete # <<>>
  /\ \A i \in 2..Len(rows_to_delete) : rows_to_delete[i] = rows_to_delete[i - 1] + 1

\* lines 176-192: the sheet rows to delete, from the first record on; the
\* loop stops at the first record that is not older than days_to_keep
RECURSIVE RowsToDelete(_, _, _)
RowsToDelete(rows, i, args) ==
  IF i > Len(rows) THEN <<>>
  ELSE LET timestamp == rows[i].time_stamp
       IN  IF DayNumber(args.now) - DayNumber(timestamp) > args.days_to_keep
           THEN (IF timestamp.month < args.mnth \/ timestamp.year < args.now.year
                 THEN <<i + 1>> ELSE <<>>)
                  \o RowsToDelete(rows, i + 1, args)
           ELSE <<>>

InitReduce ==
  /\ pc = "reduce_read"
  /\ regional = FALSE
  /\ now = 0
  /\ local_start = 0 /\ regional_start = 0
  /\ process_start = 0 /\ status_start = 0
  /\ local_et = 0 /\ regional_et = 0 /\ process_et = 0
  /\ call \in ReduceArgs
  /\ \E t \in ReduceTables(call.now) :
       sheets = [w \in Worksheets |->
                   IF w = LOCAL_WORKSHEET_NAME
                   THEN <<HeaderRow(<<"time_stamp">>)>> \o t ELSE <<>>]
  /\ df = <<>> /\ df_local = <<>>
  /\ idx = 1
  /\ df_regional_stats = <<>>
  /\ wpc = "none" /\ attempts = 0 /\ ret = <<>>
  /\ faults = 0 /\ down = FALSE /\ api_left = 0
  /\ hist = NoHist

reduce_frame == <<regional, now, timers, polled, df_local, idx, df_regional_stats,
                  call, wpc, attempts, env, hist>>

\* lines 164-197: the records are read and the rows to delete collected (a
\* record is row i + 1 of the sheet, after the header)
ReduceSelect ==
  /\ pc = "reduce_read"
  /\ df' = get_all_records(sheets[LOCAL_WORKSHEET_NAME])
  /\ ret' = RowsToDelete(df', 1, call)
  /\ pc' = IF ret' = <<>> THEN "reduce_done" ELSE "reduce_confirm"
  /\ UNCHANGED <<reduce_frame, sheets>>

\* lines 200-217 and delete_rows: unless warnings are off the operator is
\* asked; rows that are not consecutive are not deleted
ReduceDelete ==
  /\ pc = "reduce_confirm"
  /\ \E answer \in {"y", "n"} :
       /\ call.warnings => answer = "y"
       /\ sheets' =
            IF answer = "y" /\ is_continuous(ret)
            THEN [sheets EXCEPT ![LOCAL_WORKSHEET_NAME] =
                    SubSeq(@, 1, ret[1] - 1) \o SubSeq(@, ret[Len(ret)] + 1, Len(@))]
            ELSE sheets
  /\ pc' = "reduce_done"
  /\ UNCHANGED <<reduce_frame, df, ret>>

SpecReduce == InitReduce /\ [][ReduceSelect \/ ReduceDelete]_vars

-----------------------------------------------------------------------------
(* gsheets_mgmt.py: the spreadsheet files of the service account are listed *)
(* and, with --delete, deleted.  A file name is the sequence of its words;  *)
(* `in` is the test that a word occurs in it.                               *)

MaxFiles == 3

Contains(name, word) == \E i \in DOMAIN name : name[i] = word

FileNames == {<<"pa_history">>, <<"pa_history", "data">>, <<"pa_history", "401K">>,
              <<"pa_history", "401K", "data">>, <<"401K", "data">>, <<"notes">>}

\* client.list_spreadsheet_files(): files owned by the account or shared with it
FileLists ==
  UNION {{f \in [1..n -> [name : FileNames, owned : BOOLEAN]] : TRUE} :
         n \in 1..MaxFiles}

InitMgmt ==
  /\ pc = "mgmt_loop"
  /\ regional = FALSE
  /\ now = 0
  /\ local_start = 0 /\ regional_start = 0
  /\ process_start = 0 /\ status_start = 0
  /\ local_et = 0 /\ regional_et = 0 /\ process_et = 0
  /\ call \in {[fn |-> "gsheets_mgmt", delete |-> d] : d \in BOOLEAN}
  /\ df \in FileLists
  /\ ret = DOMAIN df
  /\ idx = 1
  /\ sheets = [w \in Worksheets |-> <<>>]
  /\ df_local = <<>>
  /\ df_regional_stats = <<>>
  /\ wpc = "none" /\ attempts = 0
  /\ faults = 0 /\ down = FALSE /\ api_left = 0
  /\ hist = NoHist

mgmt_frame == <<regional, now, timers, polled, sheets, df, df_local,
                df_regional_stats, call, wpc, attempts, env, hist>>

\* lines 67-77, one file of the loop: ret is the set of the listed files that
\* still exist; del_spreadsheet on a file the account does not own raises
\* an APIError, which is swallowed
MgmtVisit ==
  /\ pc = "mgmt_loop"
  /\ idx <= Len(df)
  /\ LET spreadsheet == df[idx]
     IN  ret' = IF /\ Contains(spreadsheet.name, "pa_history")
                   /\ call.delete
                   /\ \/ ~Contains(spreadsheet.name, "401K")
                      \/ ~Contains(spreadsheet.name, "data")
                   /\ spreadsheet.owned
                THEN ret \ {idx} ELSE ret
  /\ idx' = idx + 1
  /\ UNCHANGED <<mgmt_frame, pc>>

\* line 78: the loop is over
MgmtEnd ==
  /\ pc = "mgmt_loop"
  /\ idx > Len(df)
  /\ pc' = "mgmt_done"
  /\ UNCHANGED <<mgmt_frame, idx, ret>>

SpecMgmt == InitMgmt /\ [][MgmtVisit \/ MgmtEnd]_vars

-----------------------------------------------------------------------------
(* pa_get_history.get_data: the days 1..last_day_of_range of a month are    *)
(* cut into the day ranges of the requests.  The quotients of lines 263-264 *)
(* are floats in the code; for the days and limits below int() of them is   *)
(* the integer quotient taken here.                                         *)

\* lines 244-248: the last day of the month, or today's day of the month
LastDays == 1..31

\* lines 250-257, minutes: days
average_limits(average) ==
  CASE average = 0 -> 2
    [] average = 10 -> 3
    [] average = 30 -> 7
    [] average = 60 -> 14
    [] average = 360 -> 90
    [] average = 1440 -> 365

Averages == {0, 10, 30, 60, 360, 1440}

\* line 261, math.ceil
num_iterations(last_day_of_range, average) ==
  (last_day_of_range + average_limits(average) - 1) \div average_limits(average)

\* a variant of line 263 that starts a range on the day the one before ends
start_day_no_offset(last_day_of_range, n, loop_num) ==
  (last_day_of_range * (loop_num - 1)) \div n

\* line 263
start_day(last_day_of_range, n, loop_num) ==
  (last_day_of_range * (loop_num - 1)) \div n + 1

\* lines 264, 268-269
end_day(last_day_of_range, n, loop_num) ==
  LET e == (last_day_of_range * loop_num) \div n
  IN  IF e > last_day_of_range THEN last_day_of_range ELSE e

InitHistory ==
  /\ pc = "history_loop"
  /\ regional = FALSE
  /\ now = 0
  /\ local_start = 0 /\ regional_start = 0
  /\ process_start = 0 /\ status_start = 0
  /\ local_et = 0 /\ regional_et = 0 /\ process_et = 0
  /\ call \in {[fn |-> "get_data", last_day_of_range |-> l, average |-> a] :
                 l \in LastDays, a \in Averages}
  /\ idx = 1
  /\ ret = <<>>
  /\ sheets = [w \in Worksheets |-> <<>>]
  /\ df = <<>> /\ df_local = <<>>
  /\ df_regional_stats = <<>>
  /\ wpc = "none" /\ attempts = 0
  /\ faults = 0 /\ down = FALSE /\ api_left = 0
  /\ hist = NoHist

history_frame == <<regional, now, timers, polled, sheets, df, df_local,
                   df_regional_stats, call, wpc, attempts, env, hist>>

\* lines 262-269, one request of the loop: idx is loop_num, ret the day
\* ranges requested so far
HistoryRequest ==
  /\ pc = "history_loop"
  /\ LET n == num_iterations(call.last_day_of_range, call.average)
     IN  /\ idx <= n
         /\ ret' = Append(ret, [start_day |-> start_day(call.last_day_of_range, n, idx),
                                 end_day |-> end_day(call.last_day_of_range, n, idx)])
  /\ idx' = idx + 1
  /\ UNCHANGED <<history_frame, pc>>

\* line 262: the loop is over
HistoryEnd ==
  /\ pc = "history_loop"
  /\ idx > num_iterations(call.last_day_of_range, call.average)
  /\ pc' = "history_done"
  /\ UNCHANGED <<history_frame, idx, ret>>

SpecHistory == InitHistory /\ [][HistoryRequest \/ HistoryEnd]_vars

-----------------------------------------------------------------------------
(* The conversions on their own: AQI.calculate on one concentration of      *)
(* -MaxBelowZero..MaxPM hundredths or on two arguments, EPA.calculate on a  *)
(* humidity and one or two concentrations, each argument a number or the '' *)
(* marker.                                                                  *)

MaxBelowZero == 300
MaxPM == 50100

\* arguments of a call with two concentrations, in hundredths
AqiPairValues == {BLANK, -100, 0, 1200, 1209, 1210, 3540, 5540, 15040, 25040}

AqiArgs ==
  {<<p>> : p \in ((-MaxBelowZero)..MaxPM) \cup {BLANK}}
    \cup {<<p, q>> : p \in AqiPairValues, q \in AqiPairValues}

\* the humidities and the concentrations (whole ug/m3) EPA.calculate is given
EpaHumidities == {BLANK, 0, 50, 100}
EpaValues == {BLANK, -5, 0, 10, 343, 344, 400}

EpaArgs ==
  {[RH |-> h, pms |-> x] :
     h \in EpaHumidities,
     x \in {<<p>> : p \in EpaValues}
             \cup {<<p, q>> : p \in EpaValues, q \in EpaValues}}

\* call holds the function and its arguments
InitConvert ==
  /\ pc = "call"
  /\ regional = FALSE
  /\ now = 0
  /\ local_start = 0 /\ regional_start = 0
  /\ process_start = 0 /\ status_start = 0
  /\ local_et = 0 /\ regional_et = 0 /\ process_et = 0
  /\ sheets = [w \in Worksheets |-> <<>>]
  /\ df = <<>> /\ df_local = <<>>
  /\ idx = 1
  /\ df_regional_stats = <<>>
  /\ \/ \E a \in AqiArgs : call = [fn |-> "AQI.calculate", pms |-> a]
     \/ \E e \in EpaArgs : call = [fn |-> "EPA.calculate", RH |-> e.RH,
                                    pms |-> e.pms]
  /\ wpc = "none" /\ attempts = 0 /\ ret = <<>>
  /\ faults = 0 /\ down = FALSE /\ api_left = 0
  /\ hist = NoHist

convert_frame == <<regional, now, timers, polled, sheets, df, df_local, idx,
                   df_regional_stats, call, wpc, attempts, env, hist>>

\* AQI.calculate(*pms): the exception leaves the function or the index is
\* returned
AqiCall ==
  /\ pc = "call" /\ call.fn = "AQI.calculate"
  /\ IF AqiRaises(call.pms)
     THEN pc' = "raised" /\ ret' = ret
     ELSE pc' = "returned" /\ ret' = AqiCalculate(call.pms)
  /\ UNCHANGED convert_frame

\* EPA.calculate(RH, *pms)
EpaCall ==
  /\ pc = "call" /\ call.fn = "EPA.calculate"
  /\ IF EpaRaises(call.pms)
     THEN pc' = "raised" /\ ret' = ret
     ELSE pc' = "returned" /\ ret' = EpaCalculate(call.RH, call.pms)
  /\ UNCHANGED convert_frame

SpecConvert == InitConvert /\ [][AqiCall \/ EpaCall]_vars

-----------------------------------------------------------------------------
(* Properties *)

\* how often x occurs in the sequence s
Count(s, x) == Cardinality({i \in DOMAIN s : s[i] = x})

IsPrefix(s, t) == Len(s) <= Len(t) /\ \A i \in DOMAIN s : s[i] = t[i]

\* the last n items of s
Last(s, n) == SubSeq(s, Len(s) - n + 1, Len(s))

\* the events of a log that are fetches, in order
FetchesOf(log) == SelectSeq(log, LAMBDA e : e.ev = "fetch")

\* the wrapper has returned the result of the wrapped function to its caller
Returned == wpc = "none" /\ call.fn # "none" /\ pc # "exit1"

\* a fetch of the log did not get a 2xx response
Failed(e) == e.ev = "fetch" /\ e.outcome # "ok"

-----------------------------------------------------------------------------
C2_RetryThenSuccess ==
  /\ hist.calls = 0 => hist.sleeps = <<>>
  /\ Len(hist.sleeps) <= hist.calls
  /\ \A i \in DOMAIN hist.sleeps :
       hist.sleeps[i] = call.delay + call.escalation * (i - 1)
  /\ Returned =>
       /\ attempts < call.max_attempts
       /\ hist.calls = attempts + 1
       /\ Len(hist.sleeps) = attempts
       /\ ret = IF call.fn = "get_gsheet_data"
                THEN get_all_records(sheets[call.ws]) ELSE <<>>

\* get_gsheet_data has failed twice and returned the table at its third
\* invocation
C2_Witness ==
  /\ Returned
  /\ call.fn = "get_gsheet_data" /\ call.max_attempts = 9
  /\ attempts = 2 /\ hist.calls = 3 /\ hist.sleeps = <<90, 180>>
  /\ Len(ret) > 0

\* C7: when write_data returns from a replace-write, the worksheet holds the
\* header row followed by the data rows and nothing else, whatever it held
\* before and whatever the earlier attempts did before they failed.
C7_ReplaceIsExact ==
  (Returned /\ call.fn = "write_data" /\ call.mode = "update") =>
    sheets[call.ws] = <<HeaderRow(call.cols)>> \o call.rows

\* a replace-write of two rows over an earlier table has returned at its
\* third attempt
C7_Witness ==
  /\ Returned /\ call.fn = "write_data" /\ call.mode = "update"
  /\ attempts = 2 /\ Len(call.rows) = 2
  /\ Len(sheets[call.ws]) = 3

\* C3 (as the specification states it): a timer's start time is reset only
\* once every step of the timer's action has completed, so whenever the
\* running or last action has reset its timer, that action is complete.
C3_ResetOnlyWhenComplete ==
  \A t \in hist.resets : hist.fire = t /\ hist.done

\* the process timer has been reset and the reports have not run yet
C3_Witness ==
  /\ pc = "health" /\ wpc = "none"
  /\ hist.fire = "process" /\ ~hist.done /\ "process" \in hist.resets
  /\ process_start = now

\* C4: after a local action that ran for longer than
\* REGIONAL_INTERVAL_DURATION, the regional timer fires in the first loop
\* iteration that polls the elapsed times after the action (unless it fired
\* right after the action, in the iteration of the action itself), and no
\* iteration fires it more than once.
C4_RegionalNotDropped ==
  /\ pc \in {"process_check", "proc_read", "loop"} => hist.pending # 2
  /\ Count(hist.fired, "regional") <= 1
  /\ hist.pending = 3 => Count(hist.fired, "regional") = 1

\* the regional timer has fired on the poll that followed a long local action
C4_Witness ==
  /\ hist.pending = 3
  /\ pc = "regional_fetch" /\ hist.fire = "regional"
  /\ hist.fired = <<"regional">>

\* C5: a timer's action starts only when the timer's interval has elapsed
\* since the timer was last reset (local: >=, regional and process: >), and
\* no timer fires twice in one loop iteration.
C5_FiresOnlyWhenDue ==
  /\ (hist.fire = "local" /\ ~hist.done) =>
       hist.began - local_start >= LOCAL_INTERVAL_DURATION
  /\ (hist.fire = "regional" /\ ~hist.done) =>
       hist.began - regional_start > REGIONAL_INTERVAL_DURATION
  /\ (hist.fire = "process" /\ ~hist.done /\ "process" \notin hist.resets) =>
       hist.began - process_start > PROCESS_INTERVAL_DURATION
  /\ \A t \in {"local", "regional", "process"} : Count(hist.fired, t) <= 1

\* the three timers have fired in one iteration, each once
C5_Witness ==
  /\ hist.fired = <<"local", "regional", "process">>
  /\ pc = "proc_read" /\ ~hist.done

\* C6: a fetch that met a transport exception or a non-2xx response returns
\* no rows; the seed poll or the timer action it belongs to writes no
\* worksheet for its region, goes on instead of ending the process, and, at
\* its end, has reset its timer; every local fire starts with a fetch.
C6_FailedFetchIsEmpty ==
  /\ \A i \in DOMAIN hist.log :
       Failed(hist.log[i]) =>
         /\ hist.log[i].n = 0
         /\ \A j \in DOMAIN hist.log :
              ~(hist.log[j].ev = "write_data" /\ hist.log[j].ws = hist.log[i].ws)
         /\ i = Len(hist.log) => (wpc = "none" /\ pc \notin {"exit1", "crashed"})
  /\ (hist.fire = "local" /\ Failed(hist.log[1])) => Len(hist.log) = 1
  /\ (hist.fire \in {"local", "regional"} /\ hist.done) =>
       /\ hist.fire \in hist.resets
       /\ hist.fire = "local" => local_start >= hist.began
       /\ hist.fire = "regional" => regional_start >= hist.began
  /\ hist.fire = "local" => (hist.log # <<>> /\ hist.log[1].ev = "fetch")

\* a regional fire with a failed fetch for one region and rows for another
\* has ended and reset its timer
C6_Witness ==
  /\ hist.fire = "regional" /\ hist.done /\ regional_start = now
  /\ \E i \in DOMAIN hist.log : Failed(hist.log[i])
  /\ \E j \in DOMAIN hist.log : hist.log[j].ev = "write_data"

\* C8: a local fire whose fetch returned rows appends them to the raw local
\* worksheet and then replace-writes Current, which then holds only rows of
\* that fetch that pass the Quality Filter; a local fire whose fetch returned
\* nothing writes neither worksheet.
C8_LocalFire ==
  hist.fire = "local" =>
    /\ IsPrefix(hist.log,
                <<hist.log[1], WriteEvent(LOCAL_WORKSHEET_NAME, "append"),
                  WriteEvent(CURRENT_WORKSHEET_NAME, "update")>>)
    /\ hist.log[1].n = 0 => Len(hist.log) = 1
    /\ (hist.done /\ hist.log[1].n > 0) => Len(hist.log) = 3
    /\ (pc = "local_reset" /\ wpc = "none" /\ hist.log[1].n > 0) =>
         /\ Len(sheets[LOCAL_WORKSHEET_NAME]) >= Len(df_local)
         /\ \A i \in DOMAIN df_local :
              LET raw == Last(sheets[LOCAL_WORKSHEET_NAME], Len(df_local))[i]
              IN  /\ DOMAIN raw = DOMAIN df_local[i] \ {"Ipm25"}
                  /\ \A c \in DOMAIN raw : raw[c] = df_local[i][c]
         /\ Head(sheets[CURRENT_WORKSHEET_NAME]) = HeaderRow(local_cols)
         /\ \A j \in 2..Len(sheets[CURRENT_WORKSHEET_NAME]) :
              LET r == sheets[CURRENT_WORKSHEET_NAME][j]
              IN  /\ CleanKeep(r)
                  /\ \E i \in DOMAIN df_local :
                       \A c \in DOMAIN df_local[i] : r[c] = df_local[i][c]

\* a local fire has fetched two rows, appended them and written the one that
\* passes the filter to Current
C8_Witness ==
  /\ hist.fire = "local" /\ pc = "local_reset" /\ wpc = "none"
  /\ Len(df_local) = 2
  /\ Len(sheets[CURRENT_WORKSHEET_NAME]) = 2

\* the calls of a complete process fire: process_data reads the raw worksheet
\* of every region and replace-writes its '<region> Proc'; sensor_health
\* replace-writes Health; regional_stats reads every '<region> Proc' and
\* replace-writes Regional
ProcessCalls ==
  Flatten([i \in DOMAIN BBOX_KEYS |->
             <<ReadEvent(BBOX_KEYS[i]), WriteEvent(ProcName(BBOX_KEYS[i]), "update")>>])
    \o <<WriteEvent(OUT_WORKSHEET_HEALTH_NAME, "update")>>
    \o Flatten([i \in DOMAIN BBOX_KEYS |->
                  <<ReadEvent(ProcName(BBOX_KEYS[i])),
                    WriteEvent(OUT_WORKSHEET_REGIONAL_NAME, "update")>>])

\* C9: a process fire issues its calls in the order of the three stages (the
\* Proc worksheet of every region, then Health, then Regional), so no Health
\* or Regional write precedes a Proc write, and a fire that has run to its
\* end has left out none of them.
C9_ProcessStages ==
  hist.fire = "process" =>
    /\ IsPrefix(hist.log, ProcessCalls)
    /\ hist.done => hist.log = ProcessCalls

\* a process fire has run to its end and written every worksheet it derives
C9_Witness ==
  /\ hist.fire = "process" /\ hist.done
  /\ Len(hist.log) = 4 * Len(BBOX_KEYS) + 1
  /\ \A w \in ReplaceSheets \ {CURRENT_WORKSHEET_NAME} : sheets[w] # <<>>

\* C10: the seed poll runs before the loop and before line 501 sets a start
\* time; it fetches every region (with the flag) or the local region alone
\* (without it), each once, in order and since five minutes ago, and it
\* appends every result that has rows to the raw worksheet of its region and
\* writes nothing else.
C10_SeedPoll ==
  LET regions == IF regional THEN BBOX_KEYS ELSE <<LOCAL_REGION>>
      fetched == FetchesOf(hist.log)
  IN  hist.fire = "seed" =>
        /\ ~hist.done =>
             /\ pc \in {"seed", "exit1"}
             /\ local_start = Unset /\ regional_start = Unset
             /\ process_start = Unset /\ status_start = Unset
        /\ hist.done =>
             /\ Len(fetched) = Len(regions)
             /\ local_start >= 0 /\ regional_start >= 0
             /\ process_start >= 0 /\ status_start >= 0
        /\ Len(fetched) <= Len(regions)
        /\ \A i \in DOMAIN fetched :
             fetched[i].ws = regions[i] /\ fetched[i].since = five_min_ago
        /\ \A i \in DOMAIN hist.log :
             LET e == hist.log[i] IN
               /\ e.ev = "fetch" =>
                    (e.n > 0 <=> (i < Len(hist.log)
                                    /\ hist.log[i + 1] = WriteEvent(e.ws, "append")))
               /\ e.ev # "fetch" =>
                    (i > 1 /\ hist.log[i - 1].ev = "fetch"
                       /\ e = WriteEvent(hist.log[i - 1].ws, "append"))
        /\ (Returned /\ call.mode = "append") =>
             (Len(sheets[call.ws]) > Len(call.rows)
                /\ Last(sheets[call.ws], Len(call.rows)) = call.rows)

\* the seed poll of all the regions has ended with rows appended for one of
\* them, and main has set the start times
C10_Witness ==
  /\ hist.fire = "seed" /\ hist.done /\ regional
  /\ Len(FetchesOf(hist.log)) = Len(BBOX_KEYS)
  /\ \E i \in DOMAIN hist.log : hist.log[i].ev = "write_data"
  /\ pc = "loop" /\ local_start = now

-----------------------------------------------------------------------------
\* C11: an operator interrupt that arrives while main is inside its loop --
\* at the idle sleep, inside a timer's action, inside a wrapped spreadsheet
\* call or the back-off sleep of its retry -- ends the process with exit
\* status 0, and nothing runs after it
C11_InterruptExitsZero ==
  (hist.fire = "interrupt" /\ hist.at.pc # "seed")
    => (pc = "exit0" /\ ~ENABLED (Next \/ KeyboardInterrupt))

\* the interrupt arrived after a back-off sleep of a retried spreadsheet call
\* of a timer's action
C11_Witness ==
  /\ pc = "exit0"
  /\ hist.fire = "interrupt"
  /\ hist.at.wpc = "invoke" /\ hist.at.attempts > 0

-----------------------------------------------------------------------------
\* C12: the look-back window of the next poll of a region reaches back at
\* least to the instant the fetch of the previous poll was issued: when a
\* local or regional action has ended and reset its start time, a poll at any
\* later tick t asks for the readings of the last et_since(t, start) ticks,
\* and t - et_since(t, start) is no later than the tick at which the action
\* issued its (first) fetch
C12_WindowReachesBack ==
  (hist.done /\ hist.fire \in {"local", "regional"})
    => LET start == IF hist.fire = "local" THEN local_start ELSE regional_start
       IN  \A t \in now..MaxTime : t - et_since(t, start) <= hist.began

-----------------------------------------------------------------------------
\* C13: with two regions, intervals of 5, 10 and 20 seconds and a sensor API
\* that always returns rows, once the loop has run for 25 seconds it has
\* appended local rows at least 4 times and regional rows at least twice and
\* has completed at least one process cycle (the Proc worksheets, the health
\* report and the regional statistics are written)
C13_EndToEnd ==
  now >= E2E_RUN
    => /\ Count(hist.log, WriteEvent(LOCAL_WORKSHEET_NAME, "append")) >= 4
       /\ \A i \in DOMAIN E2E_REGIONAL_KEYS :
            Count(hist.log, WriteEvent(E2E_REGIONAL_KEYS[i], "append")) >= 2
       /\ Count(hist.log, WriteEvent(OUT_WORKSHEET_HEALTH_NAME, "update")) >= 1
       /\ Count(hist.log, WriteEvent(OUT_WORKSHEET_REGIONAL_NAME, "update"))
            >= Len(E2E_REGIONS)

-----------------------------------------------------------------------------
\* the relative difference |a - b| / ((a + b) / 2) is below 0.70
RelativeBelow(a, b) == 20 * Abs(a - b) < 7 * (a + b)

\* C14: clean_data keeps every row under the ceiling whose channels differ
\* by less than 5 or by less than 70 % of their average; it drops a row only
\* when both differences reach their thresholds
C14_DropsOnlyWhenBoth ==
  pc = "cleaned"
    => \A i \in DOMAIN df :
         LET a == df[i].pm25_atm_a
             b == df[i].pm25_atm_b
         IN  (a <= 200000 /\ b <= 200000
                /\ (Abs(a - b) < 500 \/ RelativeBelow(a, b)))
               => \E j \in DOMAIN df_local : df_local[j] = df[i]

\* C15: clean_data applied to its own output returns that output: the same
\* rows with the same values in the same order
C15_CleanIdempotent == pc = "recleaned" => ret = df_local

\* the first pass dropped a row and kept another, and the second pass has run
C15_Witness ==
  /\ pc = "recleaned"
  /\ Len(df_local) > 0
  /\ Len(df_local) < Len(df)

-----------------------------------------------------------------------------
\* the start of the 2-hour bucket that holds tick t
TwoHourBucket(t) == t - (t % PROCESS_RESAMPLE_RULE)

\* the raw readings of sensor n in the bucket that starts at b
ReadingsOf(n, b) ==
  SelectSeq(ret, LAMBDA r : r.name = n /\ TwoHourBucket(r.time_stamp) = b)

\* the positions of the summarized rows of sensor n and bucket b
SummaryOf(n, b) ==
  {i \in DOMAIN df : df[i].name = n /\ df[i].time_stamp = b}

SensorNames == {s.name : s \in Sensors}

\* C16: the air-quality index of every row written to a Proc worksheet is
\* AQI.calculate of the bucket's mean channel A and mean channel B (the mean
\* of the two is the mean of all channel values of the bucket), and not the
\* mean of the indices of the readings
C16_IndexOfBucketMean ==
  pc = "aggregated"
    => \A i \in DOMAIN df :
         LET g == ReadingsOf(df[i].name, df[i].time_stamp)
         IN  df[i].Ipm25 =
               AqiCalculate(Column(g, "pm25_atm_a") \o Column(g, "pm25_atm_b"))

-----------------------------------------------------------------------------
\* the breakpoints from good to hazardous: (Ilow, Ihigh, Clow, Chigh), the
\* concentrations in hundredths
Bands ==
  {<<0, 50, 0, 1200>>, <<51, 100, 1210, 3540>>, <<101, 150, 3550, 5540>>,
   <<151, 200, 5550, 15040>>, <<201, 300, 15050, 25040>>,
   <<301, 500, 25050, 50040>>}

AqiReturned == pc = "returned" /\ call.fn = "AQI.calculate"

\* C18: AQI.calculate of numbers returns the index of the mean of its
\* arguments truncated to one decimal: the same as for that truncated mean
\* alone; 0 for 0, 50 for 12.0, an index of the moderate band above 50 for
\* 12.1, 0 for every negative mean, and for a mean inside a band [Clow, Chigh]
\* an index within [Ilow, Ihigh] of that band
C18_AqiOfTruncatedMean ==
  AqiReturned
    => LET S == SumSeq(call.pms)
           n == Len(call.pms)
       IN  /\ ret = AqiCalculate(<<10 * Trunc(S, 10 * n)>>)
           /\ call.pms = <<0>> => ret = 0
           /\ call.pms = <<1200>> => ret = 50
           /\ call.pms = <<1210>> => (50 < ret /\ ret <= 100)
           /\ S < 0 => ret = 0
           /\ \A b \in Bands :
                (b[3] * n <= S /\ S <= b[4] * n) => (b[1] <= ret /\ ret <= b[2])

\* the mean of two different arguments lies inside the sensitive band
C18_Witness ==
  /\ AqiReturned
  /\ Len(call.pms) = 2
  /\ call.pms[1] # call.pms[2]
  /\ ret \in 101..150

\* C19: AQI.calculate never raises to its caller, whatever its arguments,
\* the '' marker included
C19_AqiNeverRaises == call.fn = "AQI.calculate" => pc # "raised"

\* C20: EPA.calculate given the '' marker as its humidity or as any of its
\* concentrations returns 0: it does not raise and returns a value
C20_EpaBlankIsZero ==
  (call.fn = "EPA.calculate" /\ pc # "call"
     /\ (call.RH = BLANK \/ \E i \in DOMAIN call.pms : call.pms[i] = BLANK))
    => (pc = "returned" /\ ret = 0)

-----------------------------------------------------------------------------
\* the rows of sensor n handed to sensor_health
HealthRowsOf(n) == SelectSeq(df, LAMBDA r : r.name = n)

\* C21: for every sensor with a row in the input, the confidence of its
\* health row is the fraction of its rows that pass the Quality Filter,
\* 1 - failed / total, rounded to two decimals (here in hundredths), and so
\* lies between 0 and 1
C21_ConfidenceIsFraction ==
  pc = "reported"
    => \A n \in SensorNames :
         LET g == HealthRowsOf(n)
             failed == Len(g) - Len(SelectSeq(g, CleanKeep))
         IN  g # <<>>
               => \E i \in DOMAIN ret :
                    /\ ret[i].NAME = Upper(n)
                    /\ ret[i].CONFIDENCE = RoundDiv(100 * (Len(g) - failed), Len(g))
                    /\ ret[i].CONFIDENCE \in 0..100

-----------------------------------------------------------------------------
\* C22: a read of a region's Proc worksheet that fails in regional_stats
\* does not block the remaining regions: the process does not end on it (the
\* region is skipped and the later regions are still read and written)
C22_FailedReadSkipped ==
  ~(/\ pc = "exit1"
    /\ hist.fire = "process"
    /\ call.fn = "get_gsheet_data"
    /\ call.ws \in ProcSheets)

-----------------------------------------------------------------------------
\* the summary rows of the regions with a non-empty Proc worksheet among the
\* first k regions of BBOX_DICT, in that order
SummaryRows(k) ==
  Flatten([i \in 1..k |->
             LET rows == get_all_records(sheets[ProcName(BBOX_KEYS[i])])
             IN  IF rows = <<>> THEN <<>>
                 ELSE <<[Region |-> DisplayName(BBOX_KEYS[i]),
                         Mean |-> RoundDiv(100 * SumSeq(Column(rows, "Ipm25")),
                                           Len(rows)),
                         Max |-> MaxSeq(Column(rows, "Ipm25"))]>>])

\* C23: when the step of regional_stats for the k-th region has ended,
\* Regional holds the header and exactly one summary row {display name, mean,
\* max} for every region with a non-empty Proc worksheet among the first k,
\* in configuration order; an empty region adds no row and the later regions
\* follow; when regional_stats has ended this is so for all regions
C23_OneRowPerRegion ==
  /\ (pc = "stats_next" /\ wpc = "none")
       => sheets[OUT_WORKSHEET_REGIONAL_NAME] =
            <<HeaderRow(stats_cols)>> \o SummaryRows(idx)
  /\ (pc = "loop" /\ hist.fire = "process" /\ hist.done)
       => sheets[OUT_WORKSHEET_REGIONAL_NAME] =
            <<HeaderRow(stats_cols)>> \o SummaryRows(Len(BBOX_KEYS))

\* regional_stats has ended; the first region had no summarized row and a
\* later one had
C23_Witness ==
  /\ pc = "loop" /\ hist.done
  /\ get_all_records(sheets[ProcName(BBOX_KEYS[1])]) = <<>>
  /\ Len(sheets[OUT_WORKSHEET_REGIONAL_NAME]) \in 2..Len(BBOX_KEYS)

-----------------------------------------------------------------------------
\* C24: sheet_size_reduce deletes no row of the current calendar year,
\* whatever --month, --days and the worksheet: every record read whose time
\* stamp lies in the year of `now` is still in the worksheet at the end, as
\* often as it was read
C24_CurrentYearKept ==
  pc = "reduce_done"
    => \A i \in DOMAIN df :
         df[i].time_stamp.year = call.now.year
           => Count(get_all_records(sheets[LOCAL_WORKSHEET_NAME]), df[i])
                = Count(df, df[i])

-----------------------------------------------------------------------------
\* C25: with --delete gsheets_mgmt deletes only files whose name contains
\* 'pa_history' and none whose name contains '401K' or 'data'; without
\* --delete it deletes nothing
C25_DeletesOnlyHistory ==
  call.fn = "gsheets_mgmt"
    => \A i \in DOMAIN df \ ret :
         /\ call.delete
         /\ Contains(df[i].name, "pa_history")
         /\ ~Contains(df[i].name, "401K")
         /\ ~Contains(df[i].name, "data")

-----------------------------------------------------------------------------
\* C26: when write_data returns from an append, the worksheet holds what it
\* held before followed by the batch, once: whichever attempts failed, and
\* also when one failed after the store had applied its append.
C26_AppendedOnce ==
  (Returned /\ call.fn = "write_data" /\ call.mode = "append") =>
    \E earlier \in EarlierContents : sheets[call.ws] = earlier \o call.rows

\* C27: when the process stops in a replace-write, the worksheet holds its
\* complete previous content or the complete new content (header and data),
\* never the empty or header-only sheet of a replace that was cut off.  The
\* previous content is a table and the new data has rows.
C27_ReplaceIsAtomic ==
  (pc = "exit1" /\ call.fn = "write_data" /\ call.mode = "update") =>
    \/ sheets[call.ws] \in {e \in EarlierContents : Len(e) > 1}
    \/ sheets[call.ws] = <<HeaderRow(call.cols)>> \o call.rows

-----------------------------------------------------------------------------
\* C28: no step of the logger clears, removes or changes a row of a raw
\* region worksheet: what a raw worksheet holds before a step is a prefix of
\* what it holds after it; and the only worksheets a step ever empties are
\* Current, the Proc worksheets, Health and Regional.
C28_RawAppendOnly ==
  [][/\ \A k \in RawSheets : IsPrefix(sheets[k], sheets'[k])
     /\ \A w \in Worksheets :
          (sheets[w] # <<>> /\ sheets'[w] = <<>>) => w \in ReplaceSheets]_vars

\* the local raw worksheet has grown by a row to a header and two rows, and
\* Regional, written for the first region, has just been cleared by the
\* replace-write for a later one
C28_Witness ==
  /\ wpc = "wd_header" /\ call.ws = OUT_WORKSHEET_REGIONAL_NAME
  /\ pc = "stats_next" /\ idx >= 2
  /\ sheets[OUT_WORKSHEET_REGIONAL_NAME] = <<>>
  /\ Len(sheets[LOCAL_WORKSHEET_NAME]) >= 3

-----------------------------------------------------------------------------
\* C29: for every last_day_of_range of 1..31 and every averaging option the
\* day ranges of get_data's requests are non-empty, each starts on the day
\* after the one before ends, the first starts on day 1, none spans more
\* days than average_limits allows, and when the loop is over the last one
\* ends on last_day_of_range: the ranges cover the days 1..last_day_of_range
\* exactly, without overlap.
C29_DayRangesPartition ==
  call.fn = "get_data" =>
    /\ \A i \in DOMAIN ret :
         /\ ret[i].start_day <= ret[i].end_day
         /\ ret[i].end_day - ret[i].start_day + 1 <= average_limits(call.average)
         /\ ret[i].start_day = IF i = 1 THEN 1 ELSE ret[i - 1].end_day + 1
    /\ pc = "history_done" =>
         /\ ret # <<>>
         /\ ret[Len(ret)].end_day = call.last_day_of_range

\* the 31 days of a month have been requested at a 30-minute average in five
\* ranges, not all of the same length
C29_Witness ==
  /\ call.fn = "get_data" /\ pc = "history_done"
  /\ call.last_day_of_range = 31 /\ call.average = 30
  /\ Len(ret) = 5
  /\ \E i, j \in DOMAIN ret :
       ret[i].end_day - ret[i].start_day # ret[j].end_day - ret[j].start_day

-----------------------------------------------------------------------------
\* C30: AQI.calculate of one non-negative concentration does not decrease
\* when the concentration grows: its index is at most the index of the
\* concentration one hundredth higher (so of every higher one), across the
\* breakpoints and from hazardous into beyond-index; and the concentration,
\* truncated to one decimal, is inside one of the category ranges of the
\* if/elif chain, so an index is returned.
C30_AqiMonotone ==
  (call.fn = "AQI.calculate" /\ pc # "call" /\ Len(call.pms) = 1
     /\ call.pms[1] >= 0)
    => /\ pc = "returned"
       /\ ret <= AqiCalculate(<<call.pms[1] + 1>>)
       /\ LET PM2_5 == AqiPM2_5(call.pms)
          IN  \/ \E b \in Bands : b[3] <= 10 * PM2_5 /\ 10 * PM2_5 <= b[4]
              \/ PM2_5 >= 5005

\* the index of 500.49, the highest hazardous concentration, has been
\* returned; one hundredth more is beyond the index
C30_Witness ==
  /\ AqiReturned
  /\ call.pms = <<50049>>
  /\ ret = 500
  /\ AqiCategory(AqiPM2_5(<<50050>>)) = "beyond_aqi"

=============================================================================
